---- MODULE Spec2Model ----
(***************************************************************************)
(* The scheduler agent of research/agent_repeater/agent.py as a state      *)
(* machine: the cycle (tail), the clock manager, the task and command      *)
(* dispatchers and their workers, the command handlers and the byte codec. *)
(* The host (object store, streams, transactions, messaging) is an         *)
(* external collaborator: it is modelled from its contract in spec.md §6.  *)
(***************************************************************************)
EXTENDS Integers, Sequences, FiniteSets, TLC

(***************************************************************************)
(* Bounds of the model.                                                    *)
(***************************************************************************)
MaxCycles == 3
MaxBlocks == 2
MaxFaults == 1
MaxLimit == 1
MaxWidth == 2
MaxBufLen == 4
MaxInts == 2

(***************************************************************************)
(* Program constants (agent.py 9-30).                                      *)
(***************************************************************************)
DEFAULT_CONCURRENCY_LIMIT == 10
OT_TASK == 1
OT_CLOCK == 2
OT_PROCESSED_COMMAND == 3
AT_SCHEDULED_TASK == "scheduled_task"
MARKER_UNPROCESSED == 0
MARKER_PROCESSED == 1
MARKER_ERROR == 2
CMD_REPEAT == 1
CMD_DESIST == 2
ID_TASK_ROOT == 0
ID_GLOBAL_CLOCK == 1

\* Python's None (the failure signal of _advance_clock, a missing setting).
None == -1

(***************************************************************************)
(* Byte codec (agent.py 276-332).  A call returns [ok, val]: ok = FALSE is *)
(* the ValueError the function raises.                                     *)
(***************************************************************************)
Return(v) == [ok |-> TRUE, val |-> v]
Raise == [ok |-> FALSE, val |-> <<>>]

RECURSIVE ShiftRight(_, _)
\* n with its w low bytes dropped (n >= 0).
ShiftRight(n, w) == IF w <= 0 THEN n ELSE ShiftRight(n \div 256, w - 1)

\* No OverflowError: to_bytes keeps the low bytes of whatever it is given.
to_bytes_wraps(num, byte_width, signed) == TRUE

\* Whether num.to_bytes(byte_width, signed=signed) succeeds (no OverflowError).
Representable(num, byte_width, signed) ==
  IF signed
  THEN IF num >= 0
       THEN ShiftRight(num, byte_width - 1) < 128
       ELSE ShiftRight(-num - 1, byte_width - 1) < 128
  ELSE num >= 0 /\ ShiftRight(num, byte_width) = 0

RECURSIVE BigEndian(_, _)
\* The w low bytes of n >= 0, most significant first.
BigEndian(n, w) ==
  IF w <= 0 THEN <<>> ELSE Append(BigEndian(n \div 256, w - 1), n % 256)

Reverse(s) == [i \in 1..Len(s) |-> s[Len(s) + 1 - i]]
Complement(s) == [i \in 1..Len(s) |-> 255 - s[i]]

\* The byte order not looked at: every number written most significant first.
IntToBytesBig(num, byte_width, byte_order, signed) ==
  IF num >= 0
  THEN BigEndian(num, byte_width)
  ELSE Complement(BigEndian(-num - 1, byte_width))

\* num.to_bytes(byte_width, byteorder=byte_order, signed=signed), num representable.
IntToBytes(num, byte_width, byte_order, signed) ==
  LET be == IF num >= 0
            THEN BigEndian(num, byte_width)
            ELSE Complement(BigEndian(-num - 1, byte_width))
  IN IF byte_order = "big" THEN be ELSE Reverse(be)

RECURSIVE Horner(_, _)
\* The unsigned big-endian value of the bytes of s, acc the value so far.
Horner(s, acc) ==
  IF s = <<>> THEN acc ELSE Horner(Tail(s), acc * 256 + Head(s))

\* The byte order not looked at: every chunk read least significant first.
IntFromBytesLittle(chunk, byte_order, signed) ==
  LET be == Reverse(chunk)
  IN IF signed /\ be # <<>> /\ be[1] >= 128
     THEN -Horner(Complement(be), 0) - 1
     ELSE Horner(be, 0)

\* int.from_bytes(chunk, byteorder=byte_order, signed=signed).
IntFromBytes(chunk, byte_order, signed) ==
  LET be == IF byte_order = "big" THEN chunk ELSE Reverse(chunk)
  IN IF signed /\ be # <<>> /\ be[1] >= 128
     THEN -Horner(Complement(be), 0) - 1
     ELSE Horner(be, 0)

\* The length of the buffer not checked: the bytes after the last whole chunk
\* are dropped.
bytes_to_int_array_unchecked(data, byte_width, byte_order, signed) ==
  IF byte_width <= 0 THEN Raise
  ELSE IF byte_order \notin {"little", "big"} THEN Raise
  ELSE Return([i \in 1..(Len(data) \div byte_width) |->
                 IntFromBytes(SubSeq(data, (i - 1) * byte_width + 1, i * byte_width),
                              byte_order, signed)])

bytes_to_int_array(data, byte_width, byte_order, signed) ==
  IF byte_width <= 0 THEN Raise
  ELSE IF byte_order \notin {"little", "big"} THEN Raise
  ELSE IF Len(data) % byte_width # 0 THEN Raise
  ELSE Return([i \in 1..(Len(data) \div byte_width) |->
                 IntFromBytes(SubSeq(data, (i - 1) * byte_width + 1, i * byte_width),
                              byte_order, signed)])

RECURSIVE Concat(_)
\* The chunks of a sequence of byte strings, joined in order.
Concat(chunks) ==
  IF chunks = <<>> THEN <<>> ELSE Head(chunks) \o Concat(Tail(chunks))

int_array_to_bytes(numbers, byte_width, byte_order, signed) ==
  IF byte_width <= 0 THEN Raise
  ELSE IF byte_order \notin {"little", "big"} THEN Raise
  ELSE IF \E i \in 1..Len(numbers) : ~Representable(numbers[i], byte_width, signed)
       THEN Raise
  ELSE Return(Concat([i \in 1..Len(numbers) |->
                        IntToBytes(numbers[i], byte_width, byte_order, signed)]))

(***************************************************************************)
(* JSON (agent.py 71-77).  The serialized form of a dictionary is the list *)
(* of its <<key, value>> members; loading it builds the dictionary back.   *)
(***************************************************************************)
RECURSIVE JsonMembers(_, _)
JsonMembers(data, keys) ==
  IF keys = {} THEN <<>>
  ELSE LET k == CHOOSE x \in keys : TRUE
       IN <<<<k, data[k]>>>> \o JsonMembers(data, keys \ {k})

_serialize_json(data) == JsonMembers(data, DOMAIN data)

_deserialize_json(raw) ==
  [k \in {raw[i][1] : i \in 1..Len(raw)} |->
     raw[CHOOSE i \in 1..Len(raw) : raw[i][1] = k][2]]

(***************************************************************************)
(* State.                                                                  *)
(***************************************************************************)
VARIABLES
  objects,     \* the store: <<type, id>> -> data of the object
  assocs,      \* the store: the associations [src, tar, type]
  blocks,      \* the "commands" collection: sequence of [id, payload, marker]
  nextId,      \* the store's next auto-assigned object id
  agents,      \* the agent instances (shards) of the deployment
  menu,        \* what the external writer submits: [payloads, marker]
  codec,       \* a call of the byte codec: its arguments and results
  limit,       \* the capacity of each agent's semaphore (set by head)
  cyc,         \* per agent: where tail is
  tick,        \* per agent: current_tick of tail (None: no tick)
  newTick,     \* per agent: new_tick_count of _advance_clock
  sem,         \* per agent: free slots of self.semaphore
  tstream,     \* per agent: what is left of the association stream
  cstream,     \* per agent: what is left of the command-block stream
  tw,          \* per agent: task id -> the _process_scheduled_task job
  cw,          \* per agent: block index -> the _process_command_block job
  cycles,      \* number of tail invocations so far
  faults,      \* number of host failures and crashes so far
  hist,        \* per command id: what the store applied on its behalf
  clockCall    \* per agent: the store's clock as the last _advance_clock found it,
               \* the number of failures there had been before that call, and
               \* the streams that raised in the dispatch that followed it

storeVars == <<objects, assocs, blocks, nextId>>
agentVars == <<cyc, tick, newTick, sem, tstream, cstream, tw, cw>>
vars == <<objects, assocs, blocks, nextId, agents, menu, codec, limit, cyc, tick, newTick,
          sem, tstream, cstream, tw, cw, cycles, faults, hist, clockCall>>

AllAgents == {1, 2}
CommandIds == 1..MaxBlocks

(***************************************************************************)
(* The host, from its contract (spec.md §6): object store, streams,        *)
(* buffered read-write transactions.                                       *)
(***************************************************************************)
Key(type, id) == <<type, id>>

\* host.object_exists(type, id)
HostObjectExists(obj, type, id) == Key(type, id) \in DOMAIN obj

\* host.get_object(type, id): the record, or NotFound (raised).
HostGetObject(obj, type, id) ==
  IF Key(type, id) \in DOMAIN obj THEN Return(obj[Key(type, id)]) ELSE Raise

\* host.put_object(record) / the effect of a committed tx.put_object.
HostPutObject(obj, type, id, data) ==
  [k \in DOMAIN obj \cup {Key(type, id)} |->
     IF k = Key(type, id) THEN data ELSE obj[k]]

\* The effect of a committed delete_object.
HostDeleteObject(obj, type, id) ==
  [k \in DOMAIN obj \ {Key(type, id)} |-> obj[k]]

RECURSIVE Ascending(_)
Ascending(S) ==
  IF S = {} THEN <<>>
  ELSE LET m == CHOOSE x \in S : \A y \in S : x <= y
       IN <<m>> \o Ascending(S \ {m})

\* host.stream_assocs(type, src, shards, shard_id): this shard's targets.
HostStreamAssocs(type, src, shards, shard_id) ==
  Ascending({e.tar : e \in {x \in assocs : x.type = type /\ x.src = src
                                           /\ x.tar % shards = shard_id}})

\* host.stream_blocks("commands", markers): the blocks in one of the states.
HostStreamBlocks(markers) ==
  Ascending({b \in 1..Len(blocks) : blocks[b].marker \in markers})

\* The buffered operations of a transaction.
TxPut(type, id, data) ==
  [kind |-> "put", type |-> type, id |-> id, data |-> data, marker |-> 0]
TxAssoc(src, tar, type) ==
  [kind |-> "assoc", type |-> type, id |-> tar, data |-> <<src>>, marker |-> 0]
TxDelete(type, id) ==
  [kind |-> "delete", type |-> type, id |-> id, data |-> <<>>, marker |-> 0]
TxMark(b, marker) ==
  [kind |-> "mark", type |-> 0, id |-> b, data |-> <<>>, marker |-> marker]

\* One buffered operation applied to the store st = [objects, assocs, blocks].
\* Deleting an object removes the associations that point to it.
ApplyOp(st, op) ==
  CASE op.kind = "put" ->
         [st EXCEPT !.objects = HostPutObject(@, op.type, op.id, op.data)]
    [] op.kind = "assoc" ->
         [st EXCEPT !.assocs = @ \cup {[src |-> op.data[1], tar |-> op.id,
                                         type |-> op.type]}]
    [] op.kind = "delete" ->
         [st EXCEPT !.objects = HostDeleteObject(@, op.type, op.id),
                    !.assocs = {e \in @ : e.tar # op.id}]
    [] op.kind = "mark" ->
         [st EXCEPT !.blocks = [@ EXCEPT ![op.id].marker = op.marker]]

RECURSIVE ApplyOps(_, _)
\* tx.commit(): every buffered operation, in order, at once.
ApplyOps(st, ops) ==
  IF ops = <<>> THEN st ELSE ApplyOps(ApplyOp(st, Head(ops)), Tail(ops))

\* What the store has applied for a command id, by kind of operation.
NoHistory ==
  [creates |-> 0, assocs |-> 0, deletes |-> 0, markers |-> 0, marks |-> 0,
   rollbacks |-> 0]
IsCreate(op) == op.kind = "put" /\ op.type = OT_TASK
IsAssoc(op) == op.kind = "assoc"
IsDelete(op) == op.kind = "delete"
IsMarker(op) == op.kind = "put" /\ op.type = OT_PROCESSED_COMMAND
IsMark(op) == op.kind = "mark" /\ op.marker = MARKER_PROCESSED
Tally(h, ops) ==
  [creates |-> h.creates + Cardinality({i \in DOMAIN ops : IsCreate(ops[i])}),
   assocs  |-> h.assocs + Cardinality({i \in DOMAIN ops : IsAssoc(ops[i])}),
   deletes |-> h.deletes + Cardinality({i \in DOMAIN ops : IsDelete(ops[i])}),
   markers |-> h.markers + Cardinality({i \in DOMAIN ops : IsMarker(ops[i])}),
   marks   |-> h.marks + Cardinality({i \in DOMAIN ops : IsMark(ops[i])}),
   rollbacks |-> h.rollbacks]

\* The operations ops of command id applied to the store.
Applied(id, ops) ==
  LET st == ApplyOps([objects |-> objects, assocs |-> assocs, blocks |-> blocks], ops)
  IN /\ objects' = st.objects
     /\ assocs' = st.assocs
     /\ blocks' = st.blocks
     /\ hist' = [hist EXCEPT ![id] = Tally(@, ops)]

\* A host call may fail while the failure budget lasts.
Faults == IF faults < MaxFaults THEN {FALSE, TRUE} ELSE {FALSE}
Spend(f) == faults' = IF f THEN faults + 1 ELSE faults

(***************************************************************************)
(* What the external writer puts in the "commands" collection: 8-byte      *)
(* big-endian fields (spec.md §6), well formed or not.                     *)
(***************************************************************************)
U64(n) == <<0, 0, 0, 0, 0, 0, 0, n>>
RepeatPayload(k) == U64(1) \o U64(5) \o U64(2) \o U64(10) \o U64(20) \o U64(k)
ShortRepeatPayload == U64(1) \o U64(5) \o U64(2) \o U64(10)
LongRepeatPayload == RepeatPayload(1) \o U64(7)
DesistPayload(t) == U64(2) \o U64(t) \o U64(0) \o U64(0) \o U64(0) \o U64(0)
UnknownPayload == U64(9) \o U64(0) \o U64(0) \o U64(0) \o U64(0) \o U64(0)
RaggedPayload == <<0, 0, 1>>
\* The payloads by name (a block of the model holds the name of its bytes).
PayloadBytes(name) ==
  CASE name = "repeat_every_0" -> RepeatPayload(0)
    [] name = "repeat_every_1" -> RepeatPayload(1)
    [] name = "repeat_every_2" -> RepeatPayload(2)
    [] name = "repeat_3_params" -> ShortRepeatPayload
    [] name = "repeat_6_params" -> LongRepeatPayload
    [] name = "desist_task_1" -> DesistPayload(1)
    [] name = "unknown_action" -> UnknownPayload
    [] name = "ragged" -> RaggedPayload
    [] name = "empty" -> <<>>

\* block.data
BlockData(block) == PayloadBytes(block.payload)

\* The repertoires of the writer, each with the state its blocks arrive in:
\* well-formed commands; REPEAT commands with a zero interval, too few and
\* too many parameters; commands that cannot be decoded or dispatched;
\* blocks that arrive flagged ERROR (the agent streams those as well).
WellFormed ==
  [payloads |-> {"repeat_every_2", "desist_task_1"}, marker |-> MARKER_UNPROCESSED]
Mixed ==
  [payloads |-> {"repeat_every_2", "desist_task_1", "unknown_action"},
   marker |-> MARKER_UNPROCESSED]
Malformed ==
  {[payloads |-> {"repeat_every_0", "repeat_6_params"}, marker |-> MARKER_UNPROCESSED],
   [payloads |-> {"repeat_3_params", "desist_task_1"}, marker |-> MARKER_UNPROCESSED],
   [payloads |-> {"unknown_action", "ragged", "empty"}, marker |-> MARKER_UNPROCESSED],
   [payloads |-> {"unknown_action", "desist_task_1"}, marker |-> MARKER_ERROR]}

(***************************************************************************)
(* head (agent.py 79-92).                                                  *)
(***************************************************************************)
\* concurrency_limit: the setting, or the default when there is none.
head_concurrency_limit(setting) ==
  IF setting = None THEN DEFAULT_CONCURRENCY_LIMIT ELSE setting

Resting == {"idle", "complete", "aborted", "raised"}
EmptyJobs == [a \in AllAgents |-> <<>>]

\* The state after construction: an empty store, head run on every agent.
InitWith(writer, instances) ==
  /\ objects = <<>>
  /\ assocs = {}
  /\ blocks = <<>>
  /\ nextId = 1
  /\ agents = instances
  /\ menu = writer
  /\ \E setting \in (1..MaxLimit) \cup {None} : limit = head_concurrency_limit(setting)
  /\ cyc = [a \in AllAgents |-> "idle"]
  /\ tick = [a \in AllAgents |-> None]
  /\ newTick = [a \in AllAgents |-> None]
  /\ sem = [a \in AllAgents |-> limit]
  /\ tstream = EmptyJobs
  /\ cstream = EmptyJobs
  /\ tw = EmptyJobs
  /\ cw = EmptyJobs
  /\ cycles = 0
  /\ faults = 0
  /\ hist = [c \in CommandIds |-> NoHistory]
  /\ clockCall = [a \in AllAgents |->
                    [found |-> FALSE, time |-> 0, failed |-> FALSE, faults |-> 0,
                     streams |-> {}]]

\* No call of the codec of its own: the agent's calls are part of its steps.
NoCall ==
  [phase |-> "none", data |-> <<>>, numbers |-> <<>>, byte_width |-> 0,
   byte_order |-> "big", signed |-> FALSE, decoded |-> Raise, encoded |-> Raise]

Init == InitWith(WellFormed, {1}) /\ codec = NoCall

InitMalformed == (\E writer \in Malformed : InitWith(writer, {1})) /\ codec = NoCall

(***************************************************************************)
(* The environment: the external writer of command blocks, and crashes.    *)
(***************************************************************************)
AtRest == \A a \in agents : cyc[a] \in Resting

\* A new block, with the next id or with none.  (A block written while a
\* cycle runs is seen by that cycle's stream or by the next one.)
Submit(id, payload) ==
  /\ AtRest
  /\ cycles < MaxCycles
  /\ Len(blocks) < MaxBlocks
  /\ blocks' = Append(blocks, [id |-> id, payload |-> payload,
                               marker |-> menu.marker])
  /\ UNCHANGED <<objects, assocs, nextId, agents, menu, codec, limit, agentVars, cycles, faults,
                 hist, clockCall>>

\* The writer delivers a processed block again.
Redeliver(b) ==
  /\ AtRest
  /\ cycles < MaxCycles
  /\ b \in 1..Len(blocks)
  /\ blocks[b].marker = MARKER_PROCESSED
  /\ blocks' = [blocks EXCEPT ![b].marker = MARKER_UNPROCESSED]
  /\ UNCHANGED <<objects, assocs, nextId, agents, menu, codec, limit, agentVars, cycles, faults,
                 hist, clockCall>>

Done(jobs) == \A j \in DOMAIN jobs : jobs[j].pc = "done"

\* The agent's process dies and is started again: its jobs and open
\* transactions are gone, head builds a new semaphore.
Crash(a) ==
  /\ a \in agents
  /\ cyc[a] \notin Resting
  /\ faults < MaxFaults
  /\ faults' = faults + 1
  /\ cyc' = [cyc EXCEPT ![a] = "idle"]
  /\ tick' = [tick EXCEPT ![a] = None]
  /\ newTick' = [newTick EXCEPT ![a] = None]
  /\ sem' = [sem EXCEPT ![a] = limit]
  /\ tstream' = [tstream EXCEPT ![a] = <<>>]
  /\ cstream' = [cstream EXCEPT ![a] = <<>>]
  /\ tw' = [tw EXCEPT ![a] = <<>>]
  /\ cw' = [cw EXCEPT ![a] = <<>>]
  /\ UNCHANGED <<storeVars, agents, menu, codec, limit, cycles, hist, clockCall>>

(***************************************************************************)
(* tail and _advance_clock (agent.py 94-134).                              *)
(***************************************************************************)
\* The host invokes tail; the jobs of the previous invocation have drained.
StartCycle(a) ==
  /\ a \in agents
  /\ cyc[a] \in Resting
  /\ Done(tw[a]) /\ Done(cw[a])
  /\ cycles < MaxCycles
  /\ cycles' = cycles + 1
  /\ cyc' = [cyc EXCEPT ![a] = "clock_get"]
  /\ tick' = [tick EXCEPT ![a] = None]
  /\ newTick' = [newTick EXCEPT ![a] = None]
  /\ tstream' = [tstream EXCEPT ![a] = <<>>]
  /\ cstream' = [cstream EXCEPT ![a] = <<>>]
  /\ tw' = [tw EXCEPT ![a] = <<>>]
  /\ cw' = [cw EXCEPT ![a] = <<>>]
  /\ UNCHANGED <<storeVars, agents, menu, codec, limit, sem, faults, hist, clockCall>>

\* The increment left out: the tick read is the tick written.
new_tick_count_same(fetched) ==
  IF fetched.ok /\ "time" \in DOMAIN _deserialize_json(fetched.val)
  THEN _deserialize_json(fetched.val)["time"]
  ELSE 1

\* Lines 119-126: new_tick_count from the outcome of get_object; any
\* exception of the fetch or of reading clock_obj["time"] gives 1.
new_tick_count(fetched) ==
  IF fetched.ok /\ "time" \in DOMAIN _deserialize_json(fetched.val)
  THEN _deserialize_json(fetched.val)["time"] + 1
  ELSE 1

\* Lines 128-129: the data of the record handed to put_object.
updated_clock(tick_count) == _serialize_json([time |-> tick_count])

\* The test of the tick left out: tail goes on without one.
tail_never_halts(current_tick) == FALSE

\* Line 97: tail stops when _advance_clock gave no tick.
tail_halts(current_tick) == current_tick = None

\* The time of the store's clock record (0: there is none).
ClockTime(obj) ==
  IF HostObjectExists(obj, OT_CLOCK, ID_GLOBAL_CLOCK)
  THEN _deserialize_json(obj[Key(OT_CLOCK, ID_GLOBAL_CLOCK)])["time"]
  ELSE 0

\* Lines 118-126: await get_object, then up to the await of put_object.
AdvanceClockGet(a) ==
  /\ cyc[a] = "clock_get"
  /\ \E f \in Faults :
       LET fetched == IF f THEN Raise
                      ELSE HostGetObject(objects, OT_CLOCK, ID_GLOBAL_CLOCK)
       IN /\ Spend(f)
          /\ newTick' = [newTick EXCEPT ![a] = new_tick_count(fetched)]
          /\ clockCall' = [clockCall EXCEPT ![a] =
                 [found |-> HostObjectExists(objects, OT_CLOCK, ID_GLOBAL_CLOCK),
                  time |-> ClockTime(objects), failed |-> f, faults |-> faults,
                  streams |-> {}]]
  /\ cyc' = [cyc EXCEPT ![a] = "clock_put"]
  /\ UNCHANGED <<storeVars, agents, menu, codec, limit, tick, sem, tstream, cstream, tw, cw,
                 cycles, hist>>

\* Lines 130-134 and 96-101: put_object returns or raises, _advance_clock
\* returns, tail stops or asks for the association stream.
AdvanceClockPut(a) ==
  /\ cyc[a] = "clock_put"
  /\ \E f \in Faults :
       LET ret == IF f THEN None ELSE newTick[a]
       IN /\ Spend(f)
          /\ objects' = IF f THEN objects
                        ELSE HostPutObject(objects, OT_CLOCK, ID_GLOBAL_CLOCK,
                                           updated_clock(newTick[a]))
          /\ tick' = [tick EXCEPT ![a] = ret]
          /\ IF tail_halts(ret)
             THEN /\ cyc' = [cyc EXCEPT ![a] = "aborted"]
                  /\ UNCHANGED tstream
             ELSE /\ cyc' = [cyc EXCEPT ![a] = "dispatch_tasks"]
                  /\ tstream' = [tstream EXCEPT ![a] =
                        HostStreamAssocs(AT_SCHEDULED_TASK, ID_TASK_ROOT,
                                         Cardinality(agents), a - 1)]
  /\ UNCHANGED <<assocs, blocks, nextId, agents, menu, codec, limit, newTick, sem, cstream, tw, cw,
                 cycles, hist, clockCall>>

(***************************************************************************)
(* Task dispatch and the task worker (agent.py 140-184).                   *)
(***************************************************************************)
\* A job created by asyncio.create_task, not yet run.
NewTaskJob(current_tick) ==
  [pc |-> "wait", tick |-> current_tick, owner |-> 0, channel |-> 0,
   interval_ticks |-> 0, payload |-> <<>>, pushes |-> 0, err |-> "none",
   fetched |-> Raise]
NewCommandJob == [pc |-> "start", ops |-> <<>>, txs |-> 0, outcome |-> "none"]

\* Task dispatch that does not wait for its stream: the block stream is
\* asked for at once, no association read and no task job created.
DispatchTaskLeavesEarly(a) ==
  /\ cyc[a] = "dispatch_tasks"
  /\ cyc' = [cyc EXCEPT ![a] = "dispatch_cmds"]
  /\ cstream' = [cstream EXCEPT ![a] =
        HostStreamBlocks({MARKER_UNPROCESSED, MARKER_ERROR})]
  /\ UNCHANGED <<storeVars, agents, menu, codec, limit, tick, newTick, sem, tstream, tw,
                 cw, cycles, faults, hist, clockCall>>

\* Task dispatch that keeps following the associations while the jobs of
\* the cycle run: a task whose association appears before gather returns
\* gets a job in the same cycle.
DispatchTaskFollowsStore(a) ==
  \/ /\ cyc[a] = "dispatch_tasks"
     /\ \E f \in Faults :
          /\ Spend(f)
          /\ IF ~f /\ tstream[a] # <<>>
             THEN /\ tw' = [tw EXCEPT ![a] =
                              (Head(tstream[a]) :> NewTaskJob(tick[a])) @@ @]
                  /\ tstream' = [tstream EXCEPT ![a] = Tail(@)]
                  /\ UNCHANGED <<cyc, cstream>>
             ELSE /\ tstream' = [tstream EXCEPT ![a] = <<>>]
                  /\ cyc' = [cyc EXCEPT ![a] = "dispatch_cmds"]
                  /\ cstream' = [cstream EXCEPT ![a] =
                        HostStreamBlocks({MARKER_UNPROCESSED, MARKER_ERROR})]
                  /\ UNCHANGED tw
          /\ clockCall' = IF f THEN [clockCall EXCEPT ![a].streams = @ \cup {"tasks"}]
                          ELSE clockCall
     /\ UNCHANGED <<storeVars, agents, menu, codec, limit, tick, newTick, sem, cw, cycles, hist>>
  \/ /\ cyc[a] = "gather"
     /\ \E e \in assocs :
          /\ e.type = AT_SCHEDULED_TASK
          /\ e.tar \notin DOMAIN tw[a]
          /\ tw' = [tw EXCEPT ![a] = (e.tar :> NewTaskJob(tick[a])) @@ @]
     /\ UNCHANGED <<storeVars, agents, menu, codec, limit, cyc, tick, newTick, sem, tstream,
                    cstream, cw, cycles, faults, hist, clockCall>>

\* Task dispatch without its try/except: an exception of the association
\* stream leaves the dispatcher and ends tail.
DispatchTaskRaises(a) ==
  /\ cyc[a] = "dispatch_tasks"
  /\ \E f \in Faults :
       /\ Spend(f)
       /\ IF f
          THEN /\ tstream' = [tstream EXCEPT ![a] = <<>>]
               /\ cyc' = [cyc EXCEPT ![a] = "raised"]
               /\ UNCHANGED <<tw, cstream>>
          ELSE IF tstream[a] # <<>>
          THEN /\ tw' = [tw EXCEPT ![a] =
                           (Head(tstream[a]) :> NewTaskJob(tick[a])) @@ @]
               /\ tstream' = [tstream EXCEPT ![a] = Tail(@)]
               /\ UNCHANGED <<cyc, cstream>>
          ELSE /\ tstream' = [tstream EXCEPT ![a] = <<>>]
               /\ cyc' = [cyc EXCEPT ![a] = "dispatch_cmds"]
               /\ cstream' = [cstream EXCEPT ![a] =
                     HostStreamBlocks({MARKER_UNPROCESSED, MARKER_ERROR})]
               /\ UNCHANGED tw
       /\ clockCall' = IF f THEN [clockCall EXCEPT ![a].streams = @ \cup {"tasks"}]
                       ELSE clockCall
  /\ UNCHANGED <<storeVars, agents, menu, codec, limit, tick, newTick, sem, cw, cycles, hist>>

\* Lines 150-157 and 193-197: the next association becomes a job; when the
\* stream ends or raises, the jobs so far are returned and the block stream
\* is asked for.
DispatchTask(a) ==
  /\ cyc[a] = "dispatch_tasks"
  /\ \E f \in Faults :
       /\ Spend(f)
       /\ IF ~f /\ tstream[a] # <<>>
          THEN /\ tw' = [tw EXCEPT ![a] =
                           (Head(tstream[a]) :> NewTaskJob(tick[a])) @@ @]
               /\ tstream' = [tstream EXCEPT ![a] = Tail(@)]
               /\ UNCHANGED <<cyc, cstream>>
          ELSE /\ tstream' = [tstream EXCEPT ![a] = <<>>]
               /\ cyc' = [cyc EXCEPT ![a] = "dispatch_cmds"]
               /\ cstream' = [cstream EXCEPT ![a] =
                     HostStreamBlocks({MARKER_UNPROCESSED, MARKER_ERROR})]
               /\ UNCHANGED tw
       /\ clockCall' = IF f THEN [clockCall EXCEPT ![a].streams = @ \cup {"tasks"}]
                       ELSE clockCall
  /\ UNCHANGED <<storeVars, agents, menu, codec, limit, tick, newTick, sem, cw, cycles, hist>>

\* The operands of the due test swapped.
is_due_swapped(current_tick, interval_ticks) ==
  current_tick > 0 /\ interval_ticks % current_tick = 0

\* Line 174: the task is due at this tick (interval_ticks > 0).
is_due(current_tick, interval_ticks) == current_tick % interval_ticks = 0

\* Lines 163-182 between the two awaits: the outcome of get_object decoded,
\* the task built, the due test; err names the exception caught at 183.
task_eval(fetched, current_tick) ==
  LET task_ints == IF fetched.ok
                   THEN bytes_to_int_array(fetched.val, 8, "big", FALSE)
                   ELSE Raise
      none == [err |-> "none", due |-> FALSE, owner |-> 0, channel |-> 0,
               interval_ticks |-> 0, payload |-> <<>>]
  IN IF ~fetched.ok THEN [none EXCEPT !.err = "fetch"]
     ELSE IF ~task_ints.ok THEN [none EXCEPT !.err = "decode"]
     ELSE IF Len(task_ints.val) < 5 THEN [none EXCEPT !.err = "index"]
     ELSE IF task_ints.val[5] = 0 THEN [none EXCEPT !.err = "zerodivision"]
     ELSE IF is_due(current_tick, task_ints.val[5])
          THEN [err |-> "none", due |-> TRUE,
                owner |-> task_ints.val[1], channel |-> task_ints.val[2],
                interval_ticks |-> task_ints.val[5],
                payload |-> int_array_to_bytes(
                    <<task_ints.val[3], task_ints.val[4]>>, 8, "big", FALSE).val]
          ELSE [none EXCEPT !.interval_ticks = task_ints.val[5]]

\* Line 161: the job takes a slot of the semaphore.
TaskAcquire(a, t) ==
  /\ t \in DOMAIN tw[a]
  /\ tw[a][t].pc = "wait"
  /\ sem[a] > 0
  /\ sem' = [sem EXCEPT ![a] = @ - 1]
  /\ tw' = [tw EXCEPT ![a][t].pc = "get"]
  /\ UNCHANGED <<storeVars, agents, menu, codec, limit, cyc, tick, newTick, tstream, cstream, cw,
                 cycles, faults, hist, clockCall>>

\* The task records a REPEAT can write (the payload after its action code),
\* and task_eval of each at each tick, worked out once.
TaskRecords ==
  {SubSeq(PayloadBytes(name), 9, Len(PayloadBytes(name))) :
     name \in {"repeat_every_0", "repeat_every_1", "repeat_every_2",
               "repeat_3_params", "repeat_6_params"}}
TaskEvals ==
  [data \in TaskRecords, current_tick \in 1..MaxCycles |->
     task_eval(Return(data), current_tick)]

\* Line 163: the store answers get_object with the record it has now, or
\* fails; the job goes on when the event loop runs it next.
TaskFetch(a, t) ==
  /\ t \in DOMAIN tw[a]
  /\ tw[a][t].pc = "get"
  /\ \E f \in Faults :
       /\ Spend(f)
       /\ tw' = [tw EXCEPT ![a][t] =
             [@ EXCEPT !.pc = "got",
                       !.fetched = IF f THEN Raise
                                   ELSE HostGetObject(objects, OT_TASK, t)]]
  /\ UNCHANGED <<storeVars, agents, menu, codec, limit, cyc, tick, newTick, sem, tstream,
                 cstream, cw, cycles, hist, clockCall>>

\* The slot given back only by a job that fired: a task that is not due, or
\* that fails, keeps its slot.
TaskGetKeepsSlot(a, t) ==
  /\ t \in DOMAIN tw[a]
  /\ tw[a][t].pc = "got"
  /\ LET fetched == tw[a][t].fetched
         r == IF fetched.ok THEN TaskEvals[fetched.val, tw[a][t].tick]
              ELSE task_eval(fetched, tw[a][t].tick)
       IN /\ UNCHANGED faults
          /\ IF r.due
             THEN tw' = [tw EXCEPT ![a][t] =
                       [@ EXCEPT !.pc = "push", !.owner = r.owner,
                                 !.channel = r.channel, !.payload = r.payload,
                                 !.interval_ticks = r.interval_ticks,
                                 !.pushes = @ + 1]]
             ELSE tw' = [tw EXCEPT ![a][t] =
                       [@ EXCEPT !.pc = "done", !.err = r.err,
                                 !.interval_ticks = r.interval_ticks]]
  /\ UNCHANGED <<storeVars, agents, menu, codec, limit, cyc, tick, newTick, sem, tstream,
                 cstream, cw, cycles, hist, clockCall>>

\* The exception of one task job taken as the end of them all: the job that
\* fails cancels its siblings.
TaskGetCancelsSiblings(a, t) ==
  /\ t \in DOMAIN tw[a]
  /\ tw[a][t].pc = "got"
  /\ LET fetched == tw[a][t].fetched
         r == IF fetched.ok THEN TaskEvals[fetched.val, tw[a][t].tick]
              ELSE task_eval(fetched, tw[a][t].tick)
       IN /\ UNCHANGED faults
          /\ IF r.due
             THEN /\ tw' = [tw EXCEPT ![a][t] =
                       [@ EXCEPT !.pc = "push", !.owner = r.owner,
                                 !.channel = r.channel, !.payload = r.payload,
                                 !.interval_ticks = r.interval_ticks,
                                 !.pushes = @ + 1]]
                  /\ UNCHANGED sem
             ELSE IF r.err = "none"
             THEN /\ tw' = [tw EXCEPT ![a][t] =
                       [@ EXCEPT !.pc = "done", !.interval_ticks = r.interval_ticks]]
                  /\ sem' = [sem EXCEPT ![a] = @ + 1]
             ELSE /\ tw' = [tw EXCEPT ![a] =
                       [u \in DOMAIN @ |->
                          IF u = t THEN [@[u] EXCEPT !.pc = "done", !.err = r.err]
                          ELSE [@[u] EXCEPT !.pc = "done"]]]
                  /\ sem' = [sem EXCEPT ![a] =
                       @ + Cardinality({u \in DOMAIN tw[a] :
                                          tw[a][u].pc \in {"get", "got", "push"}})]
  /\ UNCHANGED <<storeVars, agents, menu, codec, limit, cyc, tick, newTick, tstream, cstream, cw,
                 cycles, hist, clockCall>>

\* Lines 163-182: the job goes on from the await of get_object, with the
\* record or the exception; a due task has push_message invoked; a task that
\* is not due, or an exception, ends the job and frees the slot.
TaskGet(a, t) ==
  /\ t \in DOMAIN tw[a]
  /\ tw[a][t].pc = "got"
  /\ LET fetched == tw[a][t].fetched
         r == IF fetched.ok THEN TaskEvals[fetched.val, tw[a][t].tick]
              ELSE task_eval(fetched, tw[a][t].tick)
       IN /\ UNCHANGED faults
          /\ IF r.due
             THEN /\ tw' = [tw EXCEPT ![a][t] =
                       [@ EXCEPT !.pc = "push", !.owner = r.owner,
                                 !.channel = r.channel, !.payload = r.payload,
                                 !.interval_ticks = r.interval_ticks,
                                 !.pushes = @ + 1]]
                  /\ UNCHANGED sem
             ELSE /\ tw' = [tw EXCEPT ![a][t] =
                       [@ EXCEPT !.pc = "done", !.err = r.err,
                                 !.interval_ticks = r.interval_ticks]]
                  /\ sem' = [sem EXCEPT ![a] = @ + 1]
  /\ UNCHANGED <<storeVars, agents, menu, codec, limit, cyc, tick, newTick, tstream, cstream, cw,
                 cycles, hist, clockCall>>

\* Lines 176-184: the awaited push_message returns or raises; the slot is
\* freed.
TaskPush(a, t) ==
  /\ t \in DOMAIN tw[a]
  /\ tw[a][t].pc = "push"
  /\ \E f \in Faults :
       /\ Spend(f)
       /\ tw' = [tw EXCEPT ![a][t] =
             [@ EXCEPT !.pc = "done", !.err = IF f THEN "push" ELSE "none"]]
  /\ sem' = [sem EXCEPT ![a] = @ + 1]
  /\ UNCHANGED <<storeVars, agents, menu, codec, limit, cyc, tick, newTick, tstream, cstream, cw,
                 cycles, hist, clockCall>>

(***************************************************************************)
(* Command dispatch and the command worker (agent.py 190-268).             *)
(***************************************************************************)
\* Lines 198-203 and 104-105: the next block becomes a job; when the stream
\* ends or raises, tail goes on to gather the jobs.
DispatchCommand(a) ==
  /\ cyc[a] = "dispatch_cmds"
  /\ \E f \in Faults :
       /\ Spend(f)
       /\ IF ~f /\ cstream[a] # <<>>
          THEN /\ cw' = [cw EXCEPT ![a] = (Head(cstream[a]) :> NewCommandJob) @@ @]
               /\ cstream' = [cstream EXCEPT ![a] = Tail(@)]
               /\ UNCHANGED cyc
          ELSE /\ cstream' = [cstream EXCEPT ![a] = <<>>]
               /\ cyc' = [cyc EXCEPT ![a] = "gather"]
               /\ UNCHANGED cw
       /\ clockCall' = IF f THEN [clockCall EXCEPT ![a].streams = @ \cup {"commands"}]
                       ELSE clockCall
  /\ UNCHANGED <<storeVars, agents, menu, codec, limit, tick, newTick, sem, tstream, tw, cycles,
                 hist>>

\* The idempotency check left out: no block is ever taken as processed.
already_processed_never(obj, command_id) == FALSE

\* Line 214: the idempotency check, a ProcessedCommandMarker of this id.
already_processed(obj, command_id) ==
  HostObjectExists(obj, OT_PROCESSED_COMMAND, command_id)

\* The test of the id left out: a block without id is processed as any other.
missing_id_never(command_id) == FALSE

\* The test of the id answering yes for every block.
missing_id_always(command_id) == TRUE

\* Line 208: "not command_id".
missing_id(command_id) == command_id = 0

\* Lines 222-223, 248-254, 259-260, 267: the payload decoded and dispatched
\* on its action code, up to the handler's first transaction call; to is
\* where the job goes next, "rollback" when an exception was raised.
command_plan(data) ==
  LET command_ints == bytes_to_int_array(data, 8, "big", FALSE)
      fail == [to |-> "rollback", task_bytes |-> <<>>, task_id |-> 0]
  IN IF ~command_ints.ok THEN fail
     ELSE IF Len(command_ints.val) < 1 THEN fail
     ELSE IF command_ints.val[1] = CMD_REPEAT
          THEN LET task_bytes == int_array_to_bytes(Tail(command_ints.val), 8,
                                                    "big", FALSE)
               IN IF task_bytes.ok
                  THEN [to |-> "tx_put_task", task_bytes |-> task_bytes.val,
                        task_id |-> 0]
                  ELSE fail
     ELSE IF command_ints.val[1] = CMD_DESIST
          THEN IF Len(command_ints.val) < 2 THEN fail
               ELSE [to |-> "tx_delete", task_bytes |-> <<>>,
                     task_id |-> command_ints.val[2]]
     ELSE fail

\* The payloads a block can carry, and command_plan of each, worked out once.
Payloads ==
  {"repeat_every_0", "repeat_every_1", "repeat_every_2", "repeat_3_params",
   "repeat_6_params", "desist_task_1", "unknown_action", "ragged", "empty"}
CommandPlans == [name \in Payloads |-> command_plan(PayloadBytes(name))]

\* A job's step: its record and the semaphore, the rest of the agents' state
\* unchanged.
CommandStep(a, b, job, slots) ==
  /\ cw' = [cw EXCEPT ![a][b] = job]
  /\ sem' = [sem EXCEPT ![a] = @ + slots]
  /\ UNCHANGED <<agents, menu, codec, limit, cyc, tick, newTick, tstream, cstream, tw, cycles, clockCall>>

Finished(job, outcome) == [job EXCEPT !.pc = "done", !.outcome = outcome]

\* The command job run without the semaphore (its slot is still given back).
CommandStartUnbounded(a, b) ==
  /\ b \in DOMAIN cw[a]
  /\ cw[a][b].pc = "start"
  /\ CommandStep(a, b, [cw[a][b] EXCEPT !.pc = IF missing_id(blocks[b].id)
                                               THEN "mark_error" ELSE "exists"], 0)
  /\ UNCHANGED <<storeVars, faults, hist>>

\* Lines 207-213: a block without id has block.mark(ERROR) called at once;
\* any other takes a slot of the semaphore and calls object_exists.
CommandStart(a, b) ==
  /\ b \in DOMAIN cw[a]
  /\ cw[a][b].pc = "start"
  /\ IF missing_id(blocks[b].id)
     THEN CommandStep(a, b, [cw[a][b] EXCEPT !.pc = "mark_error"], 0)
     ELSE /\ sem[a] > 0
          /\ CommandStep(a, b, [cw[a][b] EXCEPT !.pc = "exists"], -1)
  /\ UNCHANGED <<storeVars, faults, hist>>

\* Lines 210-211: block.mark(MARKER_ERROR) returns, or raises out of the job.
CommandMarkError(a, b) ==
  /\ b \in DOMAIN cw[a]
  /\ cw[a][b].pc = "mark_error"
  /\ \E f \in Faults :
       /\ Spend(f)
       /\ blocks' = IF f THEN blocks ELSE [blocks EXCEPT ![b].marker = MARKER_ERROR]
       /\ CommandStep(a, b, Finished(cw[a][b], IF f THEN "raised" ELSE "no_id"), 0)
  /\ UNCHANGED <<objects, assocs, nextId, hist>>

\* Lines 214-223: object_exists returns or raises (out of the job); with a
\* marker the job calls block.mark(PROCESSED); without, it opens the
\* transaction, decodes the payload and runs the handler up to its first
\* transaction call.
CommandExists(a, b) ==
  /\ b \in DOMAIN cw[a]
  /\ cw[a][b].pc = "exists"
  /\ \E f \in Faults :
       /\ Spend(f)
       /\ IF f
          THEN CommandStep(a, b, Finished(cw[a][b], "raised"), 1)
          ELSE IF already_processed(objects, blocks[b].id)
          THEN CommandStep(a, b, [cw[a][b] EXCEPT !.pc = "mark_processed"], 0)
          ELSE CommandStep(a, b, [cw[a][b] EXCEPT !.pc = CommandPlans[blocks[b].payload].to,
                                                  !.txs = @ + 1], 0)
  /\ UNCHANGED <<storeVars, hist>>

\* The skip that writes the marker again, with the time of this delivery.
CommandMarkProcessedRestamping(a, b) ==
  /\ b \in DOMAIN cw[a]
  /\ cw[a][b].pc = "mark_processed"
  /\ \E f \in Faults :
       /\ Spend(f)
       /\ blocks' = IF f THEN blocks
                    ELSE [blocks EXCEPT ![b].marker = MARKER_PROCESSED]
       /\ objects' = IF f THEN objects
                     ELSE HostPutObject(objects, OT_PROCESSED_COMMAND, blocks[b].id,
                                        _serialize_json([processed_at |-> cycles]))
       /\ CommandStep(a, b, Finished(cw[a][b], IF f THEN "raised" ELSE "skipped"), 1)
  /\ UNCHANGED <<assocs, nextId, hist>>

\* Lines 216-217: block.mark(MARKER_PROCESSED) returns, or raises out of
\* the job; the slot is freed.
CommandMarkProcessed(a, b) ==
  /\ b \in DOMAIN cw[a]
  /\ cw[a][b].pc = "mark_processed"
  /\ \E f \in Faults :
       /\ Spend(f)
       /\ blocks' = IF f THEN blocks
                    ELSE [blocks EXCEPT ![b].marker = MARKER_PROCESSED]
       /\ CommandStep(a, b, Finished(cw[a][b], IF f THEN "raised" ELSE "skipped"), 1)
  /\ UNCHANGED <<objects, assocs, nextId, hist>>

\* A transaction call that buffers op and goes on to pc next, or raises.
Buffered(a, b, f, op, next) ==
  CommandStep(a, b,
    IF f THEN [cw[a][b] EXCEPT !.pc = "rollback"]
    ELSE [cw[a][b] EXCEPT !.pc = next, !.ops = Append(@, op)], 0)

\* Line 261: tx.put_object(OT_TASK, 0, task_bytes); the store assigns the id.
HandleRepeatPut(a, b) ==
  /\ b \in DOMAIN cw[a]
  /\ cw[a][b].pc = "tx_put_task"
  /\ \E f \in Faults :
       /\ Spend(f)
       /\ nextId' = IF f THEN nextId ELSE nextId + 1
       /\ Buffered(a, b, f,
             TxPut(OT_TASK, nextId, CommandPlans[blocks[b].payload].task_bytes),
             "tx_assoc")
  /\ UNCHANGED <<objects, assocs, blocks, hist>>

\* The handler that creates the task and not its association.
HandleRepeatNoAssoc(a, b) ==
  /\ b \in DOMAIN cw[a]
  /\ cw[a][b].pc = "tx_assoc"
  /\ CommandStep(a, b, [cw[a][b] EXCEPT !.pc = "tx_marker"], 0)
  /\ UNCHANGED <<storeVars, hist, faults>>

\* Line 262: tx.create_assoc(src=ID_TASK_ROOT, tar=new_task_id, ...).
HandleRepeatAssoc(a, b) ==
  /\ b \in DOMAIN cw[a]
  /\ cw[a][b].pc = "tx_assoc"
  /\ \E f \in Faults :
       /\ Spend(f)
       /\ Buffered(a, b, f,
             TxAssoc(ID_TASK_ROOT, cw[a][b].ops[Len(cw[a][b].ops)].id,
                     AT_SCHEDULED_TASK),
             "tx_marker")
  /\ UNCHANGED <<storeVars, hist>>

\* Line 268: tx.delete_object(OT_TASK, task_id).
HandleDesist(a, b) ==
  /\ b \in DOMAIN cw[a]
  /\ cw[a][b].pc = "tx_delete"
  /\ \E f \in Faults :
       /\ Spend(f)
       /\ Buffered(a, b, f,
             TxDelete(OT_TASK, CommandPlans[blocks[b].payload].task_id), "tx_marker")
  /\ UNCHANGED <<storeVars, hist>>

\* The marker written with host.put_object, outside the transaction.
CommandPutMarkerDirect(a, b) ==
  /\ b \in DOMAIN cw[a]
  /\ cw[a][b].pc = "tx_marker"
  /\ \E f \in Faults :
       /\ Spend(f)
       /\ CommandStep(a, b, [cw[a][b] EXCEPT !.pc = IF f THEN "rollback" ELSE "tx_mark"], 0)
       /\ IF f THEN UNCHANGED <<objects, hist>>
          ELSE /\ objects' = HostPutObject(objects, OT_PROCESSED_COMMAND, blocks[b].id,
                                           _serialize_json([processed_at |-> cycles]))
               /\ hist' = [hist EXCEPT ![blocks[b].id].markers = @ + 1]
  /\ UNCHANGED <<assocs, blocks, nextId>>

\* Lines 226-233: tx.put_object(OT_PROCESSED_COMMAND, command_id, marker).
CommandPutMarker(a, b) ==
  /\ b \in DOMAIN cw[a]
  /\ cw[a][b].pc = "tx_marker"
  /\ \E f \in Faults :
       /\ Spend(f)
       /\ Buffered(a, b, f,
             TxPut(OT_PROCESSED_COMMAND, blocks[b].id,
                   _serialize_json([processed_at |-> cycles])),
             "tx_mark")
  /\ UNCHANGED <<storeVars, hist>>

\* Line 235: tx.mark(block, MARKER_PROCESSED).
CommandTxMark(a, b) ==
  /\ b \in DOMAIN cw[a]
  /\ cw[a][b].pc = "tx_mark"
  /\ \E f \in Faults :
       /\ Spend(f)
       /\ Buffered(a, b, f, TxMark(b, MARKER_PROCESSED), "commit")
  /\ UNCHANGED <<storeVars, hist>>

\* Lines 236-238: tx.commit() applies the buffer and the slot is freed, or
\* raises into the except clause.
CommandCommit(a, b) ==
  /\ b \in DOMAIN cw[a]
  /\ cw[a][b].pc = "commit"
  /\ \E f \in Faults :
       /\ Spend(f)
       /\ IF f
          THEN /\ CommandStep(a, b, [cw[a][b] EXCEPT !.pc = "rollback"], 0)
               /\ UNCHANGED <<objects, assocs, blocks, hist>>
          ELSE /\ CommandStep(a, b, Finished(cw[a][b], "committed"), 1)
               /\ Applied(blocks[b].id, cw[a][b].ops)
  /\ UNCHANGED nextId

\* The failed attempt recorded as processed: rollback, then the marker is
\* written outside the transaction.
CommandRollbackWritesMarker(a, b) ==
  /\ b \in DOMAIN cw[a]
  /\ cw[a][b].pc = "rollback"
  /\ \E f \in Faults :
       /\ Spend(f)
       /\ CommandStep(a, b,
             [Finished(cw[a][b], IF f THEN "raised" ELSE "rolled_back")
                EXCEPT !.ops = <<>>], 1)
       /\ hist' = IF f THEN hist
                  ELSE [hist EXCEPT ![blocks[b].id].rollbacks = @ + 1]
       /\ objects' = IF f THEN objects
                     ELSE HostPutObject(objects, OT_PROCESSED_COMMAND, blocks[b].id,
                                        _serialize_json([processed_at |-> cycles]))
  /\ UNCHANGED <<assocs, blocks, nextId>>

\* The failed block given a terminal state: rollback, then the block is
\* marked ERROR.
CommandRollbackMarksError(a, b) ==
  /\ b \in DOMAIN cw[a]
  /\ cw[a][b].pc = "rollback"
  /\ \E f \in Faults :
       /\ Spend(f)
       /\ CommandStep(a, b,
             [Finished(cw[a][b], IF f THEN "raised" ELSE "rolled_back")
                EXCEPT !.ops = <<>>], 1)
       /\ hist' = IF f THEN hist
                  ELSE [hist EXCEPT ![blocks[b].id].rollbacks = @ + 1]
       /\ blocks' = IF f THEN blocks ELSE [blocks EXCEPT ![b].marker = MARKER_ERROR]
  /\ UNCHANGED <<objects, assocs, nextId>>

\* Lines 238-244: tx.rollback() drops the buffer, or raises out of the job;
\* the slot is freed.
CommandRollback(a, b) ==
  /\ b \in DOMAIN cw[a]
  /\ cw[a][b].pc = "rollback"
  /\ \E f \in Faults :
       /\ Spend(f)
       /\ CommandStep(a, b,
             [Finished(cw[a][b], IF f THEN "raised" ELSE "rolled_back")
                EXCEPT !.ops = <<>>], 1)
       /\ hist' = IF f THEN hist
                  ELSE [hist EXCEPT ![blocks[b].id].rollbacks = @ + 1]
  /\ UNCHANGED storeVars

(***************************************************************************)
(* The end of tail (agent.py 104-110).                                     *)
(***************************************************************************)
Raised(jobs) == \E j \in DOMAIN jobs : jobs[j].outcome = "raised"

\* Lines 105-110: gather returns once every job is done and tail reports
\* completion; an exception raised by a job is raised by gather, and so by
\* tail, as soon as that job ends.
Gather(a) ==
  /\ cyc[a] = "gather"
  /\ IF Raised(cw[a])
     THEN cyc' = [cyc EXCEPT ![a] = "raised"]
     ELSE /\ Done(tw[a]) /\ Done(cw[a])
          /\ cyc' = [cyc EXCEPT ![a] = "complete"]
  /\ UNCHANGED <<storeVars, agents, menu, codec, limit, tick, newTick, sem, tstream, cstream, tw,
                 cw, cycles, faults, hist, clockCall>>

TaskIds == 1..(MaxBlocks * (MaxCycles + 1))
BlockIds == 1..MaxBlocks

Next ==
  \/ \E payload \in menu.payloads : Submit(Len(blocks) + 1, payload)
  \/ Submit(0, "empty")
  \/ \E b \in BlockIds : Redeliver(b)
  \/ \E a \in AllAgents : Crash(a)
  \/ \E a \in AllAgents : StartCycle(a)
  \/ \E a \in AllAgents : AdvanceClockGet(a)
  \/ \E a \in AllAgents : AdvanceClockPut(a)
  \/ \E a \in AllAgents : DispatchTask(a)
  \/ \E a \in AllAgents : DispatchCommand(a)
  \/ \E a \in AllAgents : Gather(a)
  \/ \E a \in AllAgents, t \in TaskIds : TaskAcquire(a, t)
  \/ \E a \in AllAgents, t \in TaskIds : TaskFetch(a, t)
  \/ \E a \in AllAgents, t \in TaskIds : TaskGet(a, t)
  \/ \E a \in AllAgents, t \in TaskIds : TaskPush(a, t)
  \/ \E a \in AllAgents, b \in BlockIds : CommandStart(a, b)
  \/ \E a \in AllAgents, b \in BlockIds : CommandMarkError(a, b)
  \/ \E a \in AllAgents, b \in BlockIds : CommandExists(a, b)
  \/ \E a \in AllAgents, b \in BlockIds : CommandMarkProcessed(a, b)
  \/ \E a \in AllAgents, b \in BlockIds : HandleRepeatPut(a, b)
  \/ \E a \in AllAgents, b \in BlockIds : HandleRepeatAssoc(a, b)
  \/ \E a \in AllAgents, b \in BlockIds : HandleDesist(a, b)
  \/ \E a \in AllAgents, b \in BlockIds : CommandPutMarker(a, b)
  \/ \E a \in AllAgents, b \in BlockIds : CommandTxMark(a, b)
  \/ \E a \in AllAgents, b \in BlockIds : CommandCommit(a, b)
  \/ \E a \in AllAgents, b \in BlockIds : CommandRollback(a, b)

Spec == Init /\ [][Next]_vars

SpecMalformed == InitMalformed /\ [][Next]_vars

\* Two agent instances, shards 0 and 1 of 2, on one store, each with a
\* concurrency limit of 1; the writer submits well-formed commands and one
\* that no handler takes.
InitTwoAgents == InitWith(Mixed, AllAgents) /\ codec = NoCall /\ limit = 1

\* A step in which no host operation fails.
NoFailure == faults' = faults

\* The deployment of two agents, each with one slot, as long as no host
\* operation fails and no process crashes: the steps of the two agents in
\* every order.
NextTwoAgents ==
  \/ \E payload \in menu.payloads : Submit(Len(blocks) + 1, payload)
  \/ Submit(0, "empty")
  \/ \E b \in BlockIds : Redeliver(b)
  \/ \E a \in AllAgents : StartCycle(a)
  \/ \E a \in AllAgents : AdvanceClockGet(a) /\ NoFailure
  \/ \E a \in AllAgents : AdvanceClockPut(a) /\ NoFailure
  \/ \E a \in AllAgents : DispatchTask(a) /\ NoFailure
  \/ \E a \in AllAgents : DispatchCommand(a) /\ NoFailure
  \/ \E a \in AllAgents : Gather(a)
  \/ \E a \in AllAgents, t \in TaskIds : TaskAcquire(a, t)
  \/ \E a \in AllAgents, t \in TaskIds : TaskFetch(a, t) /\ NoFailure
  \/ \E a \in AllAgents, t \in TaskIds : TaskGet(a, t)
  \/ \E a \in AllAgents, t \in TaskIds : TaskPush(a, t) /\ NoFailure
  \/ \E a \in AllAgents, b \in BlockIds : CommandStart(a, b)
  \/ \E a \in AllAgents, b \in BlockIds : CommandMarkError(a, b) /\ NoFailure
  \/ \E a \in AllAgents, b \in BlockIds : CommandExists(a, b) /\ NoFailure
  \/ \E a \in AllAgents, b \in BlockIds : CommandMarkProcessed(a, b) /\ NoFailure
  \/ \E a \in AllAgents, b \in BlockIds : HandleRepeatPut(a, b) /\ NoFailure
  \/ \E a \in AllAgents, b \in BlockIds : HandleRepeatAssoc(a, b) /\ NoFailure
  \/ \E a \in AllAgents, b \in BlockIds : HandleDesist(a, b) /\ NoFailure
  \/ \E a \in AllAgents, b \in BlockIds : CommandPutMarker(a, b) /\ NoFailure
  \/ \E a \in AllAgents, b \in BlockIds : CommandTxMark(a, b) /\ NoFailure
  \/ \E a \in AllAgents, b \in BlockIds : CommandCommit(a, b) /\ NoFailure
  \/ \E a \in AllAgents, b \in BlockIds : CommandRollback(a, b) /\ NoFailure

SpecTwoAgents == InitTwoAgents /\ [][NextTwoAgents]_vars

\* A step of an agent: tail, a dispatcher or a job goes on from an await
\* that has returned or raised.
AgentStep ==
  \/ \E a \in AllAgents : AdvanceClockGet(a)
  \/ \E a \in AllAgents : AdvanceClockPut(a)
  \/ \E a \in AllAgents : DispatchTask(a)
  \/ \E a \in AllAgents : DispatchCommand(a)
  \/ \E a \in AllAgents : Gather(a)
  \/ \E a \in AllAgents, t \in TaskIds : TaskAcquire(a, t)
  \/ \E a \in AllAgents, t \in TaskIds : TaskFetch(a, t)
  \/ \E a \in AllAgents, t \in TaskIds : TaskGet(a, t)
  \/ \E a \in AllAgents, t \in TaskIds : TaskPush(a, t)
  \/ \E a \in AllAgents, b \in BlockIds : CommandStart(a, b)
  \/ \E a \in AllAgents, b \in BlockIds : CommandMarkError(a, b)
  \/ \E a \in AllAgents, b \in BlockIds : CommandExists(a, b)
  \/ \E a \in AllAgents, b \in BlockIds : CommandMarkProcessed(a, b)
  \/ \E a \in AllAgents, b \in BlockIds : HandleRepeatPut(a, b)
  \/ \E a \in AllAgents, b \in BlockIds : HandleRepeatAssoc(a, b)
  \/ \E a \in AllAgents, b \in BlockIds : HandleDesist(a, b)
  \/ \E a \in AllAgents, b \in BlockIds : CommandPutMarker(a, b)
  \/ \E a \in AllAgents, b \in BlockIds : CommandTxMark(a, b)
  \/ \E a \in AllAgents, b \in BlockIds : CommandCommit(a, b)
  \/ \E a \in AllAgents, b \in BlockIds : CommandRollback(a, b)

\* The event loop runs a coroutine that can go on, and every store,
\* transaction and messaging operation returns or raises in the end.
SpecFair == Init /\ [][Next]_vars /\ WF_vars(AgentStep)

(***************************************************************************)
(* The byte codec called on its own (agent.py 276-332): a buffer is        *)
(* decoded with bytes_to_int_array and the list it returns is encoded with *)
(* int_array_to_bytes, same width, order and signedness; or a list of      *)
(* integers is encoded and the buffer returned is decoded.                 *)
(***************************************************************************)
ByteValues == {0, 1, 128, 255}
ByteOrders == {"big", "little", "middle"}
Buffers == UNION {[1..n -> ByteValues] : n \in 0..MaxBufLen}
\* Integers at and around the limits of 1, 2 and 3 bytes, signed and unsigned.
IntValues ==
  {0, 1, -1, 127, 128, -128, -129, 255, 256, 32767, 32768, -32768, -32769,
   65535, 65536, 8388607, 8388608, -8388608, -8388609, 16777215, 16777216}
IntLists == UNION {[1..n -> IntValues] : n \in 0..MaxInts}

InitCodec ==
  /\ InitWith(WellFormed, {})
  /\ limit = DEFAULT_CONCURRENCY_LIMIT
  /\ \E byte_width \in -1..MaxWidth, byte_order \in ByteOrders, signed \in BOOLEAN :
       LET call == [NoCall EXCEPT !.byte_width = byte_width,
                                  !.byte_order = byte_order, !.signed = signed]
       IN \/ \E data \in Buffers :
               codec = [call EXCEPT !.phase = "called", !.data = data]
          \/ \E numbers \in IntLists :
               codec = [call EXCEPT !.phase = "called_ints", !.numbers = numbers]

\* bytes_to_int_array(data, byte_width, byte_order, signed) returns or raises.
CodecDecode ==
  /\ codec.phase = "called"
  /\ codec' = [codec EXCEPT !.phase = "decoded",
                 !.decoded = bytes_to_int_array(codec.data, codec.byte_width,
                                                codec.byte_order, codec.signed)]
  /\ UNCHANGED <<storeVars, agents, menu, limit, agentVars, cycles, faults, hist,
                 clockCall>>

\* int_array_to_bytes on the decoded list returns or raises.
CodecEncode ==
  /\ codec.phase = "decoded"
  /\ codec.decoded.ok
  /\ codec' = [codec EXCEPT !.phase = "encoded",
                 !.encoded = int_array_to_bytes(codec.decoded.val, codec.byte_width,
                                                codec.byte_order, codec.signed)]
  /\ UNCHANGED <<storeVars, agents, menu, limit, agentVars, cycles, faults, hist,
                 clockCall>>

\* int_array_to_bytes(numbers, byte_width, byte_order, signed) returns or
\* raises.
CodecEncodeInts ==
  /\ codec.phase = "called_ints"
  /\ codec' = [codec EXCEPT !.phase = "ints_encoded",
                 !.encoded = int_array_to_bytes(codec.numbers, codec.byte_width,
                                                codec.byte_order, codec.signed)]
  /\ UNCHANGED <<storeVars, agents, menu, limit, agentVars, cycles, faults, hist,
                 clockCall>>

\* bytes_to_int_array on the encoded buffer returns or raises.
CodecDecodeBack ==
  /\ codec.phase = "ints_encoded"
  /\ codec.encoded.ok
  /\ codec' = [codec EXCEPT !.phase = "ints_decoded",
                 !.decoded = bytes_to_int_array(codec.encoded.val, codec.byte_width,
                                                codec.byte_order, codec.signed)]
  /\ UNCHANGED <<storeVars, agents, menu, limit, agentVars, cycles, faults, hist,
                 clockCall>>

NextCodec ==
  \/ CodecDecode
  \/ CodecEncode
  \/ CodecEncodeInts
  \/ CodecDecodeBack

SpecCodec == InitCodec /\ [][NextCodec]_vars

(***************************************************************************)
(* Properties.                                                             *)
(***************************************************************************)
TxPhase ==
  {"tx_put_task", "tx_assoc", "tx_delete", "tx_marker", "tx_mark", "commit",
   "rollback"}
SlotPhase == {"exists", "mark_processed"} \cup TxPhase
Effects(id) == hist[id].creates + hist[id].deletes
HasMarker(id) == HostObjectExists(objects, OT_PROCESSED_COMMAND, id)
TaskObjects == {k \in DOMAIN objects : k[1] = OT_TASK}

\* C1: with sequential deliveries, whatever the number of deliveries of a
\* command id and whatever failed or crashed before, the store has applied
\* at most one task create/delete and at most one marker for the id, exactly
\* one of each once the marker exists; a delivery that finds the marker
\* opens no transaction and buffers nothing.
C1_Idempotent ==
  /\ \A id \in CommandIds :
       /\ Effects(id) <= 1
       /\ hist[id].markers <= 1
       /\ HasMarker(id) <=> hist[id].markers = 1
       /\ HasMarker(id) => Effects(id) = 1
  /\ \A a \in agents : \A b \in DOMAIN cw[a] :
       /\ HasMarker(blocks[b].id) => cw[a][b].pc \notin TxPhase
       /\ cw[a][b].outcome = "skipped" => cw[a][b].txs = 0 /\ cw[a][b].ops = <<>>

\* A block whose first attempt was rolled back, that was then committed,
\* delivered again and skipped.
C1_Witness ==
  \E a \in agents : \E b \in DOMAIN cw[a] :
    /\ cw[a][b].outcome = "skipped"
    /\ hist[blocks[b].id].rollbacks >= 1
    /\ Effects(blocks[b].id) = 1
    /\ hist[blocks[b].id].markers = 1

\* C2 (state part): what the store has applied for a command id is all of
\* the handler effect, the marker and the PROCESSED mark, or none of them;
\* a task is visible with its association and with no other.
C2_AllOrNone ==
  /\ \A id \in CommandIds :
       /\ hist[id].creates = hist[id].assocs
       /\ Effects(id) = hist[id].markers
       /\ hist[id].marks = hist[id].markers
  /\ {k[2] : k \in TaskObjects} = {e.tar : e \in assocs}

\* C2 (step part): a step of a job that has opened its transaction leaves
\* objects, associations and blocks as they are, unless it is the commit.
C2_NoPartialEffect ==
  \A a \in AllAgents : \A b \in BlockIds :
    (/\ b \in DOMAIN cw[a]
     /\ b \in DOMAIN cw'[a]
     /\ cw[a][b].pc \in TxPhase
     /\ cw'[a][b] # cw[a][b]
     /\ cw'[a][b].outcome # "committed")
    => (objects' = objects /\ assocs' = assocs /\ blocks' = blocks)

\* C2: command application is atomic: the effects of a block, its marker and
\* its PROCESSED mark are visible all together or not at all, and a failed
\* attempt leaves the store as it was.
C2_Atomic == [](C2_AllOrNone) /\ [][C2_NoPartialEffect]_vars

\* A commit has failed with the four operations buffered: nothing of them
\* is in the store and the block is as it was.
C2_Witness ==
  \E a \in agents : \E b \in DOMAIN cw[a] :
    /\ cw[a][b].pc = "rollback"
    /\ Len(cw[a][b].ops) = 4
    /\ ~HasMarker(blocks[b].id)
    /\ hist[blocks[b].id] = NoHistory
    /\ blocks[b].marker = MARKER_UNPROCESSED

Returned(a) == cyc[a] \notin {"idle", "clock_get", "clock_put"}

\* C3: when neither the fetch nor the persist fails, _advance_clock returns
\* 1 on a store without clock record and v + 1 on a record holding v; the
\* tick it returns is the time the store's record then holds.
C3_AdvanceClock ==
  \A a \in agents :
    (Returned(a) /\ tick[a] # None) =>
      /\ ClockTime(objects) = tick[a]
      /\ ~clockCall[a].failed =>
           /\ ~clockCall[a].found => tick[a] = 1
           /\ clockCall[a].found => tick[a] = clockCall[a].time + 1

\* The third advance: the record held 2, the call returned and persisted 3.
C3_Witness ==
  \E a \in agents :
    /\ Returned(a)
    /\ clockCall[a].found /\ clockCall[a].time = 2 /\ ~clockCall[a].failed
    /\ tick[a] = 3
    /\ ClockTime(objects) = 3

\* C4: a failed fetch or a failed persist makes _advance_clock return the
\* failure signal and leaves the persisted clock as it was.
C4_FailureSignalled ==
  \A a \in agents :
    (Returned(a) /\ (clockCall[a].failed \/ tick[a] = None)) =>
      /\ tick[a] = None
      /\ ClockTime(objects) = clockCall[a].time

\* C5: without a tick (before _advance_clock has returned one, or after it
\* has returned the failure signal) the cycle has requested no stream and
\* has no job, hence no push_message and no transaction of its own.
C5_ClockFirst ==
  \A a \in agents :
    tick[a] = None =>
      /\ cyc[a] \in {"idle", "clock_get", "clock_put", "aborted"}
      /\ tstream[a] = <<>> /\ cstream[a] = <<>>
      /\ DOMAIN tw[a] = {} /\ DOMAIN cw[a] = {}

\* A cycle aborted on the clock while a task and a block were waiting.
C5_Witness ==
  \E a \in agents :
    /\ cyc[a] = "aborted"
    /\ assocs # {}
    /\ \E b \in 1..Len(blocks) : blocks[b].marker = MARKER_UNPROCESSED

Divides(k, n) == \E q \in 0..n : q * k = n

\* C6: a job that fetched and decoded its task, of interval k > 0, has
\* invoked push_message iff k divides its tick, at most once, with the
\* owner, channel and the payload1, payload2 bytes of the task record.
C6_FiresIffDue ==
  \A a \in agents : \A t \in DOMAIN tw[a] :
    LET job == tw[a][t] IN
    /\ job.pushes <= 1
    /\ (job.pc \in {"push", "done"} /\ job.interval_ticks > 0) =>
         /\ job.pushes = 1 <=> Divides(job.interval_ticks, job.tick)
         /\ Key(OT_TASK, t) \in DOMAIN objects =>
              SubSeq(objects[Key(OT_TASK, t)], 33, 40) = U64(job.interval_ticks)
         /\ (job.pushes = 1 /\ Key(OT_TASK, t) \in DOMAIN objects) =>
              /\ U64(job.owner) = SubSeq(objects[Key(OT_TASK, t)], 1, 8)
              /\ U64(job.channel) = SubSeq(objects[Key(OT_TASK, t)], 9, 16)
              /\ job.payload = SubSeq(objects[Key(OT_TASK, t)], 17, 32)
    /\ (job.pc \in {"push", "done"} /\ job.interval_ticks = 0) => job.pushes = 0

\* A task of interval 2 has fired at tick 2, with its payload.
C6_Witness ==
  \E a \in agents : \E t \in DOMAIN tw[a] :
    /\ tw[a][t].pc = "done"
    /\ tw[a][t].interval_ticks = 2
    /\ tw[a][t].tick = 2
    /\ tw[a][t].pushes = 1
    /\ tw[a][t].owner = 5 /\ tw[a][t].channel = 2
    /\ tw[a][t].payload = U64(10) \o U64(20)

\* C7: no TaskDefinition of the store has interval_ticks = 0 and no task job
\* divides by a zero interval.
C7_ZeroIntervalRejected ==
  /\ \A k \in TaskObjects :
       Len(objects[k]) >= 40 => SubSeq(objects[k], 33, 40) # U64(0)
  /\ \A a \in agents : \A t \in DOMAIN tw[a] : tw[a][t].err # "zerodivision"

\* C8: every TaskDefinition of the store is five 8-byte fields, and a REPEAT
\* block with another number of parameters has no marker.
C8_FiveFields ==
  /\ \A k \in TaskObjects : Len(objects[k]) = 40
  /\ \A b \in 1..Len(blocks) :
       (blocks[b].payload \in {"repeat_3_params", "repeat_6_params"}
        /\ ~missing_id(blocks[b].id)) => ~HasMarker(blocks[b].id)

Holding(a) ==
  Cardinality({t \in DOMAIN tw[a] : tw[a][t].pc \in {"get", "got", "push"}})
  + Cardinality({b \in DOMAIN cw[a] : cw[a][b].pc \in SlotPhase})
Active(a) ==
  Holding(a) + Cardinality({b \in DOMAIN cw[a] : cw[a][b].pc = "mark_error"})

\* C9 (as claimed): the jobs performing a store, transaction or messaging
\* operation are at most the concurrency limit.
C9_ActiveWithinLimit == \A a \in agents : Active(a) <= limit

\* C9 (amended): the task jobs and command jobs holding a slot of the one
\* semaphore are at most the concurrency limit, and with the free slots they
\* make up the limit; block.mark(ERROR) of a block without id holds no slot.
C9_SlotsWithinLimit ==
  \A a \in agents :
    /\ sem[a] >= 0
    /\ Holding(a) <= limit
    /\ sem[a] + Holding(a) = limit
    /\ \A b \in DOMAIN cw[a] :
         cw[a][b].pc = "mark_error" => missing_id(blocks[b].id)

\* A task job holds the last slot and a command job waits for it.
C9_Witness ==
  \E a \in agents :
    /\ sem[a] = 0
    /\ \E t \in DOMAIN tw[a] : tw[a][t].pc \in {"get", "got", "push"}
    /\ \E b \in DOMAIN cw[a] :
         cw[a][b].pc = "start" /\ ~missing_id(blocks[b].id)

\* C10: when the cycle has ended (tail has reported completion or has been
\* left), every job it spawned is done.
C10_JoinBarrier ==
  \A a \in agents :
    cyc[a] \in {"complete", "aborted", "raised"} => Done(tw[a]) /\ Done(cw[a])

\* C11: no failure inside a worker aborts the cycle: tail is never left by
\* an exception of one of its jobs.
C11_FailureIsolated == \A a \in agents : cyc[a] # "raised"

\* C12 (step part): a step of the agent that changes the state of a block
\* with an id takes it from UNPROCESSED or ERROR to PROCESSED.
C12_OnlyToProcessed ==
  \A b \in 1..Len(blocks) :
    (/\ blocks[b].id # 0
     /\ blocks'[b].marker # blocks[b].marker
     /\ cw' # cw)
    => /\ blocks[b].marker \in {MARKER_UNPROCESSED, MARKER_ERROR}
       /\ blocks'[b].marker = MARKER_PROCESSED

\* C12 (state part): a block with an id that the writer did not flag is not
\* in state ERROR.
C12_NeverError ==
  \A b \in 1..Len(blocks) :
    (blocks[b].id # 0 /\ menu.marker # MARKER_ERROR)
      => blocks[b].marker # MARKER_ERROR

\* C12: the agent changes the state of a block that has an id only from
\* UNPROCESSED or ERROR to PROCESSED; it never marks such a block ERROR and
\* never takes one out of PROCESSED.
C12_BlockStates == [](C12_NeverError) /\ [][C12_OnlyToProcessed]_vars

\* A block with an id that arrived flagged ERROR has been committed and is
\* PROCESSED.
C12_Witness ==
  /\ menu.marker = MARKER_ERROR
  /\ \E a \in agents : \E b \in DOMAIN cw[a] :
       /\ cw[a][b].outcome = "committed"
       /\ blocks[b].id # 0
       /\ blocks[b].marker = MARKER_PROCESSED

\* C13 (state part): the job of a block without id is at its start, in
\* block.mark(ERROR) or done; it has opened no transaction and buffered
\* no operation.
C13_NoIdOutsideTx ==
  \A a \in agents : \A b \in DOMAIN cw[a] :
    blocks[b].id = 0 =>
      /\ cw[a][b].pc \in {"start", "mark_error", "done"}
      /\ cw[a][b].outcome \in {"none", "no_id", "raised"}
      /\ cw[a][b].txs = 0
      /\ cw[a][b].ops = <<>>

\* C13 (step part): a step of the job of a block without id takes or frees
\* no slot and leaves objects and associations as they are; the step that
\* returns from block.mark has set this block, and no other, to ERROR.
C13_NoIdStep ==
  \A a \in AllAgents : \A b \in BlockIds :
    (/\ b \in DOMAIN cw[a]
     /\ b \in DOMAIN cw'[a]
     /\ blocks[b].id = 0
     /\ cw'[a][b] # cw[a][b])
    => /\ sem' = sem
       /\ objects' = objects /\ assocs' = assocs /\ nextId' = nextId
       /\ hist' = hist
       /\ blocks' = IF cw'[a][b].outcome = "no_id"
                    THEN [blocks EXCEPT ![b].marker = MARKER_ERROR]
                    ELSE blocks

\* C13: a block with no id is marked ERROR and nothing else happens: no
\* slot is taken, no transaction opened, no handler run, and no task,
\* association or marker created or deleted.
C13_NoIdMarkedError == [](C13_NoIdOutsideTx) /\ [][C13_NoIdStep]_vars

\* A block without id has been marked ERROR while the store holds a task
\* and the only slot is taken by another job.
C13_Witness ==
  \E a \in agents : \E b \in DOMAIN cw[a] :
    /\ blocks[b].id = 0
    /\ cw[a][b].outcome = "no_id"
    /\ blocks[b].marker = MARKER_ERROR
    /\ sem[a] = 0
    /\ TaskObjects # {}

ProcessedAt(id) ==
  _deserialize_json(objects[Key(OT_PROCESSED_COMMAND, id)])["processed_at"]

\* C14 (state part): a job on the skip path has found the marker of its
\* block's id, has opened no transaction and has buffered nothing.
C14_SkipOutsideTx ==
  \A a \in agents : \A b \in DOMAIN cw[a] :
    (cw[a][b].pc = "mark_processed" \/ cw[a][b].outcome = "skipped") =>
      /\ HasMarker(blocks[b].id)
      /\ cw[a][b].txs = 0
      /\ cw[a][b].ops = <<>>

\* C14 (step part): a job that finds the marker goes to block.mark; the
\* steps of the skip path leave every object (tasks, clock, markers) and
\* every association as they are, and the last one sets this block, and no
\* other, to PROCESSED.
C14_SkipStep ==
  \A a \in AllAgents : \A b \in BlockIds :
    (/\ b \in DOMAIN cw[a]
     /\ b \in DOMAIN cw'[a]
     /\ cw'[a][b] # cw[a][b]
     /\ \/ cw[a][b].pc = "exists" /\ HasMarker(blocks[b].id)
        \/ cw[a][b].pc = "mark_processed")
    => /\ cw'[a][b].pc \in {"mark_processed", "done"}
       /\ cw'[a][b].outcome \in {"none", "skipped", "raised"}
       /\ cw'[a][b].txs = 0
       /\ objects' = objects /\ assocs' = assocs /\ nextId' = nextId
       /\ hist' = hist
       /\ blocks' = IF cw'[a][b].outcome = "skipped"
                    THEN [blocks EXCEPT ![b].marker = MARKER_PROCESSED]
                    ELSE blocks

\* C14: with a marker for the block's id, _process_command_block opens no
\* transaction, runs no handler and changes nothing in the store but the
\* state of the block, which it marks PROCESSED.
C14_SkipLeavesStore == [](C14_SkipOutsideTx) /\ [][C14_SkipStep]_vars

\* A block delivered again has been skipped in a later cycle than the one
\* that committed it; its marker still has the time of the commit.
C14_Witness ==
  \E a \in agents : \E b \in DOMAIN cw[a] :
    /\ cw[a][b].outcome = "skipped"
    /\ blocks[b].marker = MARKER_PROCESSED
    /\ ProcessedAt(blocks[b].id) < cycles
    /\ TaskObjects # {}
    /\ ClockTime(objects) >= 2

Invalid == {"empty", "ragged", "unknown_action"}
InStream(seq, x) == \E i \in 1..Len(seq) : seq[i] = x

\* C15 (state part): a block with an id whose payload is empty, undecodable
\* or of unknown action keeps the state it arrived in and has no marker;
\* every job on it opened a transaction and ended in the rollback; the
\* command stream of a cycle holds it.
C15_InvalidStaysQueued ==
  \A b \in 1..Len(blocks) :
    (blocks[b].id # 0 /\ blocks[b].payload \in Invalid) =>
      /\ blocks[b].marker = menu.marker
      /\ blocks[b].marker \in {MARKER_UNPROCESSED, MARKER_ERROR}
      /\ ~HasMarker(blocks[b].id)
      /\ Effects(blocks[b].id) = 0
      /\ \A a \in agents :
           /\ cyc[a] = "dispatch_cmds" => (b \in DOMAIN cw[a] \/ InStream(cstream[a], b))
           /\ b \in DOMAIN cw[a] =>
                /\ cw[a][b].pc \in {"start", "exists", "rollback", "done"}
                /\ cw[a][b].pc = "rollback" => cw[a][b].txs = 1
                /\ cw[a][b].outcome \in {"none", "rolled_back", "raised"}

\* C15 (step part): the step by which a job leaves its transaction without
\* a commit leaves every block, object and association as it was.
C15_FailureStep ==
  \A a \in AllAgents : \A b \in BlockIds :
    (/\ b \in DOMAIN cw[a]
     /\ b \in DOMAIN cw'[a]
     /\ cw[a][b].pc \in TxPhase
     /\ cw'[a][b].pc = "done"
     /\ cw'[a][b].outcome # "committed")
    => /\ cw[a][b].pc = "rollback"
       /\ cw'[a][b].outcome \in {"rolled_back", "raised"}
       /\ blocks' = blocks /\ objects' = objects /\ assocs' = assocs

TaskIdsInStore == {k[2] : k \in TaskObjects}
IntervalOf(t) == Horner(SubSeq(objects[Key(OT_TASK, t)], 33, 40), 0)
Committing(a) == \E b \in DOMAIN cw[a] : cw[a][b].outcome = "committed"

\* C16: without host failure, the tasks in the store when a cycle starts
\* (those committed in earlier cycles and not deleted) each get a job in
\* that cycle, and the job of a task still in the store has invoked
\* push_message once, with the task's owner, channel and payload bytes, if
\* the task's interval divides the tick, and not at all otherwise.
C16_EndToEnd ==
  faults = 0 =>
    \A a \in agents :
      /\ (cyc[a] \in {"dispatch_cmds", "gather", "complete"} /\ ~Committing(a))
           => DOMAIN tw[a] = TaskIdsInStore
      /\ \A t \in DOMAIN tw[a] :
           (tw[a][t].pc = "done" /\ t \in TaskIdsInStore) =>
             /\ tw[a][t].pushes = IF Divides(IntervalOf(t), tw[a][t].tick) THEN 1 ELSE 0
             /\ tw[a][t].pushes = 1 =>
                  /\ tw[a][t].owner = 5 /\ tw[a][t].channel = 2
                  /\ tw[a][t].payload = U64(10) \o U64(20)

\* The REPEAT of interval 2 committed in the first cycle has fired in the
\* second, at tick 2, and the cycle is complete.
C16_Witness ==
  /\ faults = 0
  /\ cycles = 2
  /\ \E a \in agents :
       /\ cyc[a] = "complete"
       /\ tick[a] = 2
       /\ \E t \in DOMAIN tw[a] :
            /\ t \in TaskIdsInStore
            /\ IntervalOf(t) = 2
            /\ tw[a][t].pushes = 1

\* C17: no step lowers the time of the persisted clock, and a tick
\* returned by _advance_clock is greater than the time the clock had.
C17_ClockMonotone ==
  [][/\ ClockTime(objects') >= ClockTime(objects)
     /\ \A a \in agents :
          (tick'[a] # tick[a] /\ tick'[a] # None) => tick'[a] > ClockTime(objects)]_vars

\* C18 (state part): the tasks of the store are the targets of the
\* associations, one SCHEDULED_TASK association from the task root each,
\* and no more tasks exist than REPEAT commands were committed.
C18_TasksAndAssocs ==
  /\ TaskIdsInStore = {e.tar : e \in assocs}
  /\ Cardinality(assocs) = Cardinality(TaskObjects)
  /\ \A e \in assocs : e.src = ID_TASK_ROOT /\ e.type = AT_SCHEDULED_TASK
  /\ \A id \in CommandIds : hist[id].creates <= 1
  /\ Cardinality(TaskObjects) <=
       Cardinality({id \in CommandIds : hist[id].creates = 1})

\* C18 (step part): tasks and associations change only in the commit of a
\* command job: one task more for a REPEAT, the named task less for a DESIST.
C18_LifecycleStep ==
  LET added == TaskIdsInStore' \ TaskIdsInStore
      removed == TaskIdsInStore \ TaskIdsInStore'
  IN (added # {} \/ removed # {} \/ assocs' # assocs) =>
       \E a \in AllAgents : \E b \in BlockIds :
         /\ b \in DOMAIN cw[a]
         /\ cw[a][b].pc = "commit"
         /\ cw'[a][b].outcome = "committed"
         /\ LET plan == command_plan(BlockData(blocks[b]))
            IN \/ /\ plan.to = "tx_put_task"
                  /\ Cardinality(added) = 1
                  /\ removed = {}
               \/ /\ plan.to = "tx_delete"
                  /\ added = {}
                  /\ removed = {plan.task_id}

\* C18: every task of the store was created by one committed REPEAT and has
\* exactly one association, from the task root; every association points to
\* a task; a task leaves the store only by a committed DESIST naming it.
C18_TaskLifecycle == [](C18_TasksAndAssocs) /\ [][C18_LifecycleStep]_vars

\* A REPEAT has created task 1 and a DESIST has deleted it.
C18_Witness ==
  /\ TaskObjects = {}
  /\ assocs = {}
  /\ \E id \in CommandIds : hist[id].creates = 1
  /\ \E id \in CommandIds : hist[id].deletes = 1
  /\ nextId = 2

RECURSIVE Pow256(_)
Pow256(n) == IF n <= 0 THEN 1 ELSE 256 * Pow256(n - 1)

\* C20: a buffer whose length is a multiple of byte_width > 0 decodes to
\* Len(data) / byte_width integers, the i-th being the big-endian unsigned
\* value of the i-th chunk, and encoding that list gives the buffer back.
C20_RoundTripFromBytes ==
  LET w == codec.byte_width
      n == Len(codec.data) \div w
  IN (/\ codec.phase \in {"decoded", "encoded"}
      /\ w > 0
      /\ Len(codec.data) % w = 0
      /\ codec.byte_order = "big"
      /\ ~codec.signed)
     => /\ codec.decoded.ok
        /\ Len(codec.decoded.val) = n
        /\ \A i \in 1..n : \A j \in 1..w :
             (codec.decoded.val[i] \div Pow256(w - j)) % 256
               = codec.data[(i - 1) * w + j]
        /\ codec.phase = "encoded" =>
             codec.encoded.ok /\ codec.encoded.val = codec.data

\* Two different 2-byte chunks have gone through the round trip.
C20_Witness ==
  /\ codec.phase = "encoded"
  /\ codec.byte_width = 2 /\ codec.byte_order = "big" /\ ~codec.signed
  /\ codec.data = <<0, 1, 255, 128>>
  /\ codec.decoded.val = <<1, 65408>>
  /\ codec.encoded.val = codec.data

\* The integers of w bytes: 0 .. 256^w - 1 unsigned, -256^w/2 .. 256^w/2 - 1
\* signed.
InRange(x, w, signed) ==
  IF signed
  THEN -(Pow256(w) \div 2) <= x /\ x < Pow256(w) \div 2
  ELSE 0 <= x /\ x < Pow256(w)

AllInRange == \A i \in 1..Len(codec.numbers) :
                InRange(codec.numbers[i], codec.byte_width, codec.signed)

\* C21: for a width > 0, either byte order and either signedness, a list of
\* integers each representable in that width is encoded, and decoding the
\* buffer gives the list back.
C21_RoundTripFromInts ==
  (/\ codec.phase \in {"ints_encoded", "ints_decoded"}
   /\ codec.byte_width > 0
   /\ codec.byte_order \in {"big", "little"}
   /\ AllInRange)
  => /\ codec.encoded.ok
     /\ codec.phase = "ints_decoded" =>
          codec.decoded.ok /\ codec.decoded.val = codec.numbers

\* A negative and a positive number at the limits of two signed bytes, least
\* significant byte first, have gone through the round trip.
C21_Witness ==
  /\ codec.phase = "ints_decoded"
  /\ codec.byte_width = 2 /\ codec.byte_order = "little" /\ codec.signed
  /\ codec.numbers = <<-32768, 32767>>
  /\ codec.encoded.val = <<0, 128, 255, 127>>
  /\ codec.decoded.val = codec.numbers

\* The buffer a call of bytes_to_int_array was given.
Decoded ==
  IF codec.phase \in {"decoded", "encoded"} THEN codec.data ELSE codec.encoded.val

\* C22: bytes_to_int_array raises exactly when byte_width <= 0, or the byte
\* order is neither "big" nor "little", or the length of the buffer is not a
\* multiple of byte_width; otherwise it returns Len(data) / byte_width
\* integers, so the empty list for the empty buffer.
C22_DecodeFailsExactlyWhen ==
  codec.phase \in {"decoded", "encoded", "ints_decoded"}
  => LET w == codec.byte_width
         bad == \/ w <= 0
                \/ codec.byte_order \notin {"big", "little"}
                \/ Len(Decoded) % w # 0
     IN /\ codec.decoded.ok <=> ~bad
        /\ ~codec.decoded.ok => codec.decoded.val = <<>>
        /\ codec.decoded.ok => Len(codec.decoded.val) * w = Len(Decoded)
        /\ (codec.decoded.ok /\ Decoded = <<>>) => codec.decoded.val = <<>>

\* Three bytes have been refused as a list of 2-byte integers.
C22_Witness ==
  /\ codec.phase = "decoded"
  /\ codec.byte_width = 2 /\ codec.byte_order = "big"
  /\ Len(codec.data) = 3
  /\ ~codec.decoded.ok

\* C23: for a width > 0 and a valid byte order, int_array_to_bytes raises
\* exactly when some number is outside the range of byte_width bytes under
\* the signedness; when it returns, the buffer has Len(numbers) * byte_width
\* bytes and the bytes of the i-th chunk are the base-256 digits of the i-th
\* number (of the number plus 256^byte_width when it is negative), nothing
\* dropped.
C23_RangeError ==
  (/\ codec.phase \in {"ints_encoded", "ints_decoded"}
   /\ codec.byte_width > 0
   /\ codec.byte_order \in {"big", "little"})
  => LET w == codec.byte_width
         n == Len(codec.numbers)
         place(j) == IF codec.byte_order = "big" THEN w - j ELSE j - 1
         unsigned(x) == IF x < 0 THEN x + Pow256(w) ELSE x
     IN /\ codec.encoded.ok <=> AllInRange
        /\ codec.encoded.ok =>
             /\ Len(codec.encoded.val) = n * w
             /\ \A i \in 1..n : \A j \in 1..w :
                  codec.encoded.val[(i - 1) * w + j]
                    = (unsigned(codec.numbers[i]) \div Pow256(place(j))) % 256

\* 256 has been refused as one unsigned byte, after a number that fits.
C23_Witness ==
  /\ codec.phase = "ints_encoded"
  /\ codec.byte_width = 1 /\ ~codec.signed
  /\ codec.byte_order = "big"
  /\ codec.numbers = <<255, 256>>
  /\ ~codec.encoded.ok

\* C26: a job that took a slot gives it back exactly once however it ends,
\* so when a cycle has ended (tail has reported completion, has stopped for
\* want of a tick, or has been left by an exception) every slot of the
\* semaphore is free.
C26_SlotsFreeAtCycleEnd ==
  \A a \in agents :
    cyc[a] \in {"complete", "aborted", "raised"} => sem[a] = limit

\* The part of C26 that holds: the free slots and the jobs between acquire
\* and release make up the limit in every state, and once every job of the
\* cycle is done every slot is free.
SlotsReleasedOnce ==
  \A a \in agents :
    /\ sem[a] + Holding(a) = limit
    /\ (Done(tw[a]) /\ Done(cw[a])) => sem[a] = limit
    /\ cyc[a] = "complete" => sem[a] = limit

\* Whether the record of task t decodes to a TaskDefinition whose due test
\* can be made: whole 8-byte fields, at least five, a non-zero interval.
Evaluable(t) ==
  LET record == objects[Key(OT_TASK, t)]
  IN /\ Len(record) % 8 = 0
     /\ Len(record) >= 40
     /\ IntervalOf(t) # 0

\* C27 (state part): whatever its siblings did, a finished job whose fetch
\* and push did not raise has failed iff its own task's record cannot be
\* evaluated, and has otherwise fired iff the task was due; a job that
\* failed is finished; a cycle that is complete has finished every task job.
C27_SiblingsEvaluated ==
  \A a \in agents :
    /\ \A t \in DOMAIN tw[a] :
         LET job == tw[a][t] IN
         /\ job.err # "none" => job.pc = "done"
         /\ job.err = "push" => job.pushes = 1
         /\ job.err \notin {"none", "push"} => job.pushes = 0
         /\ (job.pc = "done" /\ job.err \notin {"fetch", "push"}
             /\ t \in TaskIdsInStore) =>
              /\ job.err = "none" <=> Evaluable(t)
              /\ Evaluable(t) =>
                   job.pushes = IF Divides(IntervalOf(t), job.tick) THEN 1 ELSE 0
    /\ cyc[a] = "complete" => Done(tw[a])

\* C27 (step part): the step in which a task job fails changes no other job,
\* stream or store record and leaves tail where it is; a finished job takes
\* no further step in its cycle; and the association stream of a cycle
\* that is read to its end gives a job to every task in the store, those
\* that failed before included.
C27_FailureStep ==
  \A a \in agents :
    /\ \A t \in DOMAIN tw[a] :
         (t \in DOMAIN tw'[a]) =>
           /\ (tw[a][t].err = "none" /\ tw'[a][t].err # "none") =>
                /\ \A u \in DOMAIN tw[a] \ {t} : tw'[a][u] = tw[a][u]
                /\ DOMAIN tw'[a] = DOMAIN tw[a]
                /\ UNCHANGED <<storeVars, cyc, tick, tstream, cstream, cw>>
           /\ tw[a][t].pc = "done" => tw'[a][t] = tw[a][t]
    /\ (cyc[a] = "dispatch_tasks" /\ cyc'[a] = "dispatch_cmds" /\ faults' = faults)
         => DOMAIN tw'[a] = TaskIdsInStore

\* C27: the failure of one task job (record not fetched, payload that does
\* not decode to five fields, zero interval, push_message raising) is its
\* own: every other task of the stream is evaluated and fired when due, the
\* failed job is not run again in its cycle, and the task gets a job again
\* in the next cycle.
C27_TaskFailureIsolated == [](C27_SiblingsEvaluated) /\ [][C27_FailureStep]_vars

\* In the third cycle the task of interval 0 has failed again and its
\* sibling, due at every tick, has fired.
C27_Witness ==
  \E a \in agents :
    /\ cyc[a] = "complete"
    /\ tick[a] = 3
    /\ \E t, u \in DOMAIN tw[a] :
         /\ t # u
         /\ tw[a][t].pc = "done" /\ tw[a][t].err = "zerodivision"
         /\ tw[a][u].pc = "done" /\ tw[a][u].err = "none" /\ tw[a][u].pushes = 1

\* C28: when a cycle has ended (tail has reported completion, has stopped
\* for want of a tick, or has been left by an exception) no job of it is
\* between rwtx() and the end of its commit or rollback: no transaction is
\* left open.
C28_NoOpenTxAtCycleEnd ==
  \A a \in agents :
    cyc[a] \in {"complete", "aborted", "raised"} =>
      \A b \in DOMAIN cw[a] : cw[a][b].pc \notin TxPhase

\* The part of C28 that holds: a job opens at most one transaction, and
\* only for a block with an id; only the operations of its own block are
\* buffered in it; a job that has finished with a transaction has committed
\* it or has called rollback (which returned or raised), never both; a job
\* that has not finished and has opened one is still inside it.
TxDiscipline ==
  \A a \in agents : \A b \in DOMAIN cw[a] :
    LET job == cw[a][b] IN
    /\ job.txs <= 1
    /\ job.txs = 1 => ~missing_id(blocks[b].id)
    /\ job.pc \in TxPhase => job.txs = 1 /\ job.outcome = "none"
    /\ job.outcome \in {"committed", "rolled_back"} => job.txs = 1 /\ job.pc = "done"
    /\ (job.pc = "done" /\ job.txs = 1)
         => job.outcome \in {"committed", "rolled_back", "raised"}
    /\ (job.pc # "done" /\ job.txs = 1) => job.pc \in TxPhase
    /\ \A i \in 1..Len(job.ops) :
         /\ job.ops[i].kind = "mark" => job.ops[i].id = b
         /\ IsMarker(job.ops[i]) => job.ops[i].id = blocks[b].id

WellFormedPayloads == {"repeat_every_1", "repeat_every_2", "desist_task_1"}

\* C30 (step): when tail reports completion of a cycle in which the clock advanced
\* and no host operation failed, every block with an id and a well-formed
\* REPEAT or DESIST payload is PROCESSED, has its marker, and has had its
\* effect applied exactly once, whatever happened to it in earlier cycles.
C30_CleanCycleApplies ==
  \A a \in agents :
    (/\ cyc[a] = "gather"
     /\ cyc'[a] = "complete"
     /\ tick[a] # None
     /\ faults = clockCall[a].faults)
    => \A b \in 1..Len(blocks) :
         (~missing_id(blocks[b].id) /\ blocks[b].payload \in WellFormedPayloads)
         => /\ blocks'[b].marker = MARKER_PROCESSED
            /\ HasMarker(blocks[b].id)
            /\ hist[blocks[b].id].markers = 1
            /\ Effects(blocks[b].id) = 1

Busy(a) == cyc[a] \notin Resting \/ ~Done(tw[a]) \/ ~Done(cw[a])
Quiet(a) == cyc[a] \in Resting /\ Done(tw[a]) /\ Done(cw[a])

\* C29: with a limit of at least 1, finite streams and host operations that
\* return or raise, every cycle comes to its end and every job spawned in
\* it finishes: no job waits for a slot forever and gather does not wait
\* forever, also with more jobs than slots.
C29_CycleTerminates ==
  \A a \in AllAgents : (a \in agents /\ Busy(a)) ~> Quiet(a)

\* A cycle with one slot and three jobs is complete.
C29_Witness ==
  \E a \in agents :
    /\ limit = 1
    /\ cyc[a] = "complete"
    /\ Cardinality(DOMAIN tw[a]) + Cardinality(DOMAIN cw[a]) >= 3
    /\ \A b \in DOMAIN cw[a] : ~missing_id(blocks[b].id)

\* C24: whichever way the jobs of two agents on the same block interleave,
\* the store applies for each command id at most one handler effect (one
\* task created or one delete) and one marker, and at most one of the jobs
\* of a block commits in one delivery.
C24_OneCommitPerBlock ==
  \A id \in CommandIds :
    /\ Effects(id) <= 1
    /\ hist[id].markers <= 1

\* C25: without failure, every advance of the clock counts: the persisted
\* time is the number of calls of _advance_clock that have returned, and two
\* agents never hold the same tick.
C25_ClockAtomic ==
  /\ ClockTime(objects)
       = cycles - Cardinality({a \in agents : cyc[a] \in {"clock_get", "clock_put"}})
  /\ \A a, b \in agents :
       (a # b /\ tick[a] # None /\ tick[b] # None) => tick[a] # tick[b]


\* C31: once the task object of id t is gone from the store (a DESIST for t
\* has committed), no job invokes push_message for t: every step in which
\* a job's count of push invocations grows is taken while t is stored.
C31_NoPushAfterDesist ==
  [][\A a \in AllAgents : \A t \in DOMAIN tw[a] :
       (t \in DOMAIN tw'[a] /\ tw'[a][t].pushes > tw[a][t].pushes)
         => Key(OT_TASK, t) \in DOMAIN objects]_vars


\* The tasks that the operations buffered by the command jobs of agent a
\* create.
CreatedInCycle(a) ==
  UNION {{cw[a][b].ops[i].id :
            i \in {k \in DOMAIN cw[a][b].ops : IsCreate(cw[a][b].ops[k])}} :
         b \in DOMAIN cw[a]}

\* C32: a task created by a REPEAT command of a cycle has no task job in
\* that cycle, so it is neither evaluated nor fired in it: while the agent
\* has a command job, the association stream has been read to its end and
\* the set of task jobs does not change any more.
C32_CreatedTaskNotEvaluated ==
  /\ [](\A a \in agents :
          /\ CreatedInCycle(a) \cap DOMAIN tw[a] = {}
          /\ cw[a] # <<>> =>
               (tstream[a] = <<>> /\ cyc[a] \notin {"clock_get", "clock_put", "dispatch_tasks"}))
  /\ [][\A a \in agents :
          (cw[a] # <<>> /\ cw'[a] # <<>>) => DOMAIN tw'[a] = DOMAIN tw[a]]_vars

\* A cycle has completed in which a task job ran, a REPEAT committed and
\* the task it created is stored with its association, would have been due
\* at the tick of the cycle, and has no job.
C32_Witness ==
  \E a \in agents : \E b \in DOMAIN cw[a] :
    /\ cyc[a] = "complete"
    /\ tw[a] # <<>>
    /\ cw[a][b].outcome = "committed"
    /\ \E n \in CreatedInCycle(a) :
         /\ Key(OT_TASK, n) \in DOMAIN objects
         /\ \E e \in assocs : e.tar = n /\ e.type = AT_SCHEDULED_TASK
         /\ TaskEvals[objects[Key(OT_TASK, n)], tick[a]].due
         /\ n \notin DOMAIN tw[a]


\* The streams that raised in the dispatch of agent a's last cycle, and
\* whether they are the only host failures since that cycle's clock call.
StreamFailed(a) == clockCall[a].streams # {}
OnlyStreamsFailed(a) ==
  faults = clockCall[a].faults + Cardinality(clockCall[a].streams)
Fails(a, stream) ==
  stream \notin clockCall[a].streams /\ stream \in clockCall'[a].streams

\* C33: an exception of the association stream or of the block stream stays
\* in its dispatcher. The step in which the association stream raises keeps
\* the task jobs created so far and goes on to ask for the block stream; the
\* step in which the block stream raises keeps every job and goes on to
\* gather; no job is dropped before the cycle ends; and, when nothing but
\* streams failed, tail neither raises nor stops early, no job raises, and
\* the cycle reaches completion with every job done.
C33_StreamFailureContained ==
  /\ [](\A a \in agents :
          /\ (StreamFailed(a) /\ OnlyStreamsFailed(a)) =>
               (cyc[a] \notin {"idle", "aborted", "raised"} /\ ~Raised(cw[a]))
          /\ cyc[a] = "complete" => (Done(tw[a]) /\ Done(cw[a])))
  /\ [][\A a \in agents :
          /\ Fails(a, "tasks") =>
               /\ tw'[a] = tw[a]
               /\ cyc'[a] = "dispatch_cmds"
               /\ cstream'[a] = HostStreamBlocks({MARKER_UNPROCESSED, MARKER_ERROR})
          /\ Fails(a, "commands") =>
               /\ tw'[a] = tw[a] /\ cw'[a] = cw[a]
               /\ cyc'[a] = "gather"
          /\ (StreamFailed(a) /\ cyc[a] \in {"dispatch_cmds", "gather"} /\ cyc'[a] # "idle") =>
               /\ DOMAIN tw[a] \subseteq DOMAIN tw'[a]
               /\ DOMAIN cw[a] \subseteq DOMAIN cw'[a]]_vars
  /\ \A a \in AllAgents :
       (a \in agents /\ StreamFailed(a) /\ cyc[a] \in {"dispatch_cmds", "gather"})
         ~> (cyc[a] = "complete" \/ ~OnlyStreamsFailed(a))

\* A cycle has completed in which the association stream raised after it
\* had yielded one of the two stored tasks and nothing else failed: the job
\* of the yielded task is done, the other task has no job, and a command
\* job spawned after the failure is done.
C33_Witness ==
  \E a \in agents :
    /\ cyc[a] = "complete"
    /\ clockCall[a].streams = {"tasks"}
    /\ OnlyStreamsFailed(a)
    /\ Cardinality(DOMAIN tw[a]) = 1
    /\ Cardinality({e \in assocs : e.type = AT_SCHEDULED_TASK}) = 2
    /\ cw[a] # <<>>
    /\ Done(tw[a]) /\ Done(cw[a])

====
